---- MODULE Spec2Model ----
(***************************************************************************)
(* cc-guardian (ccg): checkpoints kept on the reserved branch 'ccg' of a   *)
(* git repository.  The model follows src/src/git_ops.rs (GitOperations),  *)
(* src/src/services/checkpoint_service.rs (CheckpointService) and          *)
(* src/src/main.rs (the command dispatch).  The libgit2 calls the code     *)
(* makes (head, set_head, find_branch, branch, commit, statuses, add_all,  *)
(* reset) are modelled by their effect on HEAD, the refs, the object       *)
(* store, the index and the working tree.                                  *)
(***************************************************************************)
EXTENDS Integers, Sequences, FiniteSets, TLC

\* ------------------------------------------------------------------ bounds
MaxCommits == 2
MaxContent == 1

\* --------------------------------------------------------------- constants
CCG_BRANCH_NAME == "ccg"
DEFAULT_COMMIT_MESSAGE == "Initial commit - Claude Code Checkpoint Guardian init"
FullHashLen == 40
MinShortLen == 2

\* Paths of the working directory: one ordinary file and one file that the
\* ignore rules (.git/info/exclude) match.
Paths == {"a", "ig"}
Ignored == {"ig"}
\* Local branch names that occur: the reserved branch, two user branches, and
\* "HEAD", the name get_current_branch_name reports for a detached HEAD.
Branches == {"ccg", "main", "dev", "HEAD"}
Msgs == {"first", "second"}
UserMsg == "user commit"

Contents == 0..MaxContent          \* 0: the path is absent
Trees == [Paths -> Contents]
EmptyTree == [p \in Paths |-> 0]

\* ------------------------------------------------------------------ hashes
\* A commit id is the position of the commit in the object store; its hash
\* is a string of 40 hex digits (digits as numbers 0..15).  The table gives
\* commits 1 and 2 a common 7-digit prefix, so abbreviated queries can be
\* unique, ambiguous or unmatched.  The hash of commit 2 ends in the digit 0
\* (one hash in sixteen does), the other digits after the eighth are not 0.
HashHead(k) ==
    CASE k = 1 -> <<10, 1, 11, 2, 12, 3, 13, 4>>
      [] k = 2 -> <<10, 1, 11, 2, 12, 3, 13, 9>>
      [] k = 3 -> <<11, 7, 0, 5, 14, 6, 1, 2>>
      [] OTHER -> <<12, 8, 3, 3, 9, 0, 15, k % 16>>

HashTable ==
    [k \in 1..(MaxCommits + 2) |->
        [i \in 1..FullHashLen |-> IF i <= 8 THEN HashHead(k)[i]
                                  ELSE IF k = 2 /\ i = FullHashLen THEN 0
                                  ELSE ((i + k) % 15) + 1]]

HashOf(k) == HashTable[k]

IsHex(d) == d \in 0..15
NonHex == 16

StartsWith(s, q) == Len(q) <= Len(s) /\ \A i \in 1..Len(q) : s[i] = q[i]
Prefix(s, n) == [i \in 1..n |-> s[i]]

\* ----------------------------------------------------------------- results
NoVal == <<>>
Ok(v) == [ok |-> TRUE, err |-> "", val |-> v]
Err(e) == [ok |-> FALSE, err |-> e, val |-> NoVal]

\* --------------------------------------------------------------- variables
VARIABLES
    repo,       \* the directory is a git repository
    head,       \* HEAD: [attached, branch, oid]
    refs,       \* refs/heads/<name> -> commit id, 0 when the ref is absent
    commits,    \* object store: sequence of [parent, tree, msg]
    index,      \* the index file on disk
    workdir,    \* the working tree
    pc,         \* position of the running invocation
    cur,        \* the running invocation
    last,       \* outcome of the last invocation that returned
    edited,     \* a file was modified since the last invocation returned
    probe,      \* CreateCommand::execute: the command, its reader thread, stdin
    render,     \* format_diff_output: the state its line callback keeps
    procs       \* invocations of several processes on the same repository

vars == <<repo, head, refs, commits, index, workdir, pc, cur, last, edited,
          probe, render, procs>>
\* The single invocation of the main specification, and what the other
\* specifications add to it.
mainvars == <<pc, cur, last, edited>>
sidevars == <<probe, render, procs>>
gitvars == <<repo, head, refs, commits, index, workdir>>

Git == [repo |-> repo, head |-> head, refs |-> refs, commits |-> commits,
        index |-> index, workdir |-> workdir]

SetGit(g) ==
    /\ repo' = g.repo
    /\ head' = g.head
    /\ refs' = g.refs
    /\ commits' = g.commits
    /\ index' = g.index
    /\ workdir' = g.workdir

Attached(b) == [attached |-> TRUE, branch |-> b, oid |-> 0]
Detached(c) == [attached |-> FALSE, branch |-> "", oid |-> c]

\* ----------------------------------------------------- backend (libgit2)
\* The commit HEAD resolves to, 0 when HEAD is attached to an unborn branch.
HeadTarget(g) == IF g.head.attached THEN g.refs[g.head.branch] ELSE g.head.oid

HeadUnborn(g) == g.head.attached /\ g.refs[g.head.branch] = 0

TreeOf(g, c) == IF c = 0 THEN EmptyTree ELSE g.commits[c].tree

\* repo.statuses with include_untracked, ignored files excluded: HEAD tree
\* against index, index against working tree, untracked files unless ignored.
StatusEntries(g) ==
    {p \in Paths :
        \/ TreeOf(g, HeadTarget(g))[p] # g.index[p]
        \/ g.index[p] # 0 /\ g.workdir[p] # g.index[p]
        \/ g.index[p] = 0 /\ g.workdir[p] # 0 /\ p \notin Ignored}

\* index.add_all(["*"], DEFAULT): every path of the index-to-workdir diff
\* (untracked included, ignored untracked files not) is added, updated or,
\* when deleted in the working tree, removed.
AddAll(idx, wd) ==
    [p \in Paths |-> IF wd[p] = 0 THEN 0
                     ELSE IF idx[p] = 0 /\ p \in Ignored THEN 0
                     ELSE wd[p]]

\* repo.set_head("refs/heads/<b>"): HEAD becomes attached to b, born or not.
\* fail: the backend cannot write HEAD (lock, permissions).
SetHead(g, b, fail) ==
    IF fail THEN [g |-> g, res |-> Err("GitOperationFailed:Other")]
    ELSE [g |-> [g EXCEPT !.head = Attached(b)], res |-> Ok(NoVal)]

\* repo.commit(Some("HEAD"), ..., message, tree, parents): the commit is
\* stored and the reference HEAD resolves to is moved to it (created when
\* the branch is unborn).
Commit(g, message, tree, parent) ==
    LET id == Len(g.commits) + 1
        store == Append(g.commits, [parent |-> parent, tree |-> tree, msg |-> message])
    IN  [g |-> IF g.head.attached
               THEN [g EXCEPT !.commits = store, !.refs[g.head.branch] = id]
               ELSE [g EXCEPT !.commits = store, !.head = Detached(id)],
         res |-> Ok(HashOf(id)), id |-> id]

\* Revision walk from HEAD (push_head), newest first, along first parents.
RECURSIVE WalkFrom(_, _)
WalkFrom(g, c) == IF c = 0 THEN <<>> ELSE <<c>> \o WalkFrom(g, g.commits[c].parent)

Walk(g) == WalkFrom(g, HeadTarget(g))

Range(s) == {s[i] : i \in 1..Len(s)}

Reachable(g, c) == Range(WalkFrom(g, c))

\* Variant: index and working tree are reset, the reference is not moved.
ResetHard_KeepRef(g, c) ==
    LET t == g.commits[c].tree
        wd == [p \in Paths |-> IF t[p] # 0 THEN t[p]
                               ELSE IF g.index[p] # 0 THEN 0
                               ELSE g.workdir[p]]
    IN  [g EXCEPT !.index = t, !.workdir = wd]

\* Variant: tracked files that are not in the target tree stay in the
\* working tree.
ResetHard_KeepTracked(g, c) ==
    LET t == g.commits[c].tree
        wd == [p \in Paths |-> IF t[p] # 0 THEN t[p] ELSE g.workdir[p]]
    IN  IF g.head.attached
        THEN [g EXCEPT !.refs[g.head.branch] = c, !.index = t, !.workdir = wd]
        ELSE [g EXCEPT !.head = Detached(c), !.index = t, !.workdir = wd]

\* repo.reset(commit, Hard): the checkout is forced (files of the target tree
\* are written, tracked files that are not in it are removed, untracked files
\* stay), the reference behind HEAD is moved and the index is read from the
\* target tree.
ResetHard(g, c) ==
    LET t == g.commits[c].tree
        wd == [p \in Paths |-> IF t[p] # 0 THEN t[p]
                               ELSE IF g.index[p] # 0 THEN 0
                               ELSE g.workdir[p]]
    IN  IF g.head.attached
        THEN [g EXCEPT !.refs[g.head.branch] = c, !.index = t, !.workdir = wd]
        ELSE [g EXCEPT !.head = Detached(c), !.index = t, !.workdir = wd]

\* --------------------------------------------- GitOperations (git_ops.rs)
\* Variant: Repository::init alone, HEAD stays on the default branch.
init_repository_DefaultHead(g) ==
    [g EXCEPT !.repo = TRUE, !.head = Attached("main"),
              !.refs = [b \in Branches |-> 0], !.index = EmptyTree]

\* Repository::init followed by set_head("refs/heads/ccg").
init_repository(g) ==
    [g EXCEPT !.repo = TRUE, !.head = Attached(CCG_BRANCH_NAME),
              !.refs = [b \in Branches |-> 0], !.index = EmptyTree]

\* GitOperations::new: open the repository, initialise it when there is none.
GitOperations_new(g) == IF g.repo THEN g ELSE init_repository(g)

get_current_branch_name(g) ==
    IF HeadUnborn(g) THEN "main"
    ELSE IF g.head.attached THEN g.head.branch
    ELSE "HEAD"

has_non_ignored_files(g) == StatusEntries(g) # {}

has_uncommitted_changes(g) == StatusEntries(g) # {}

\* The index the repository object holds after has_changes_to_commit: with a
\* parent commit it was cleared and refilled by add_all (not written).
TempIndex(g) == IF HeadTarget(g) = 0 THEN g.index ELSE AddAll(EmptyTree, g.workdir)

has_changes_to_commit(g) ==
    IF HeadTarget(g) = 0 THEN has_non_ignored_files(g)
    ELSE TempIndex(g) # TreeOf(g, HeadTarget(g))

create_commit_internal(g, message) ==
    IF ~has_changes_to_commit(g)
    THEN [g |-> g, res |-> Err("NoChangesToCommit")]
    ELSE LET idx == AddAll(TempIndex(g), g.workdir)
             c == Commit([g EXCEPT !.index = idx], message, idx, HeadTarget(g))
         IN  [g |-> c.g, res |-> c.res]

create_initial_commit(g) ==
    LET idx == IF has_non_ignored_files(g) THEN AddAll(g.index, g.workdir) ELSE g.index
        c == Commit([g EXCEPT !.index = idx], DEFAULT_COMMIT_MESSAGE, idx, 0)
    IN  [g |-> c.g, res |-> c.res]

\* Variant: the branch is created with force, also when it exists.
create_or_get_checkpoints_branch_Force(g) ==
    IF HeadTarget(g) # 0
    THEN [g |-> [g EXCEPT !.refs[CCG_BRANCH_NAME] = HeadTarget(g)], res |-> Ok(NoVal)]
    ELSE LET c == create_initial_commit(g)
         IN  IF c.g.refs[CCG_BRANCH_NAME] # 0
             THEN [g |-> c.g, res |-> Ok(NoVal)]
             ELSE [g |-> c.g, res |-> Err("GitOperationFailed:NotFound")]

create_or_get_checkpoints_branch(g) ==
    IF g.refs[CCG_BRANCH_NAME] # 0 THEN [g |-> g, res |-> Ok(NoVal)]
    ELSE IF HeadTarget(g) # 0
    THEN [g |-> [g EXCEPT !.refs[CCG_BRANCH_NAME] = HeadTarget(g)], res |-> Ok(NoVal)]
    ELSE LET c == create_initial_commit(g)
         IN  IF c.g.refs[CCG_BRANCH_NAME] # 0
             THEN [g |-> c.g, res |-> Ok(NoVal)]
             ELSE [g |-> c.g, res |-> Err("GitOperationFailed:NotFound")]

init_checkpoints(g) == create_or_get_checkpoints_branch(g)

\* Variant: the name is returned but HEAD is not pointed at 'ccg'.
ensure_ccg_branch_NoSwitch(g) ==
    [g |-> g, res |-> Ok(NoVal), name |-> get_current_branch_name(g)]

\* Returns the name of the branch that was current; name is "" on failure.
ensure_ccg_branch(g) ==
    LET current_branch == get_current_branch_name(g)
    IN  IF current_branch # CCG_BRANCH_NAME
        THEN IF g.refs[CCG_BRANCH_NAME] = 0
             THEN [g |-> g, res |-> Err("GitOperationFailed:NotFound"), name |-> ""]
             ELSE [g |-> SetHead(g, CCG_BRANCH_NAME, FALSE).g, res |-> Ok(NoVal),
                   name |-> current_branch]
        ELSE [g |-> g, res |-> Ok(NoVal), name |-> current_branch]

restore_original_branch(g, original_branch, fail) ==
    IF original_branch # CCG_BRANCH_NAME
    THEN SetHead(g, original_branch, fail)
    ELSE [g |-> g, res |-> Ok(NoVal)]

\* Oid::from_str: 1..40 hex digits, a shorter string is padded with zeros.
OidFromStrOk(q) == Len(q) >= 1 /\ Len(q) <= FullHashLen /\ \A i \in 1..Len(q) : IsHex(q[i])

OidFromStr(q) == [i \in 1..FullHashLen |-> IF i <= Len(q) THEN q[i] ELSE 0]

\* repo.find_commit(oid): lookup in the object store, reachable or not.
Lookup(g, oid) == {k \in 1..Len(g.commits) : HashOf(k) = oid}

Matches(g, q) == SelectSeq(Walk(g), LAMBDA k : StartsWith(HashOf(k), q))

\* The outcome of a resolution: the result, the commit found (0 on failure),
\* whether a revision walk was started, and what the error of an ambiguous
\* prefix carries besides the query: its message lists no candidate and
\* counts no further match.
Resolved(res, id, walked) ==
    [res |-> res, id |-> id, walked |-> walked, candidates |-> <<>>, remaining |-> 0]

\* Variant: the direct lookup finds only commits of the walk from HEAD.
find_commit_ReachableOnly(g, q) ==
    IF OidFromStrOk(q) /\ Lookup(g, OidFromStr(q)) \cap Range(Walk(g)) # {}
    THEN Resolved(Ok(NoVal), CHOOSE k \in Lookup(g, OidFromStr(q)) : TRUE, FALSE)
    ELSE IF Len(q) >= MinShortLen /\ Len(q) < FullHashLen
    THEN IF HeadUnborn(g)
         THEN Resolved(Err("GitOperationFailed:UnbornBranch"), 0, FALSE)
         ELSE LET matches == Matches(g, q)
              IN  CASE Len(matches) = 0 -> Resolved(Err("CheckpointNotFound"), 0, TRUE)
                    [] Len(matches) = 1 -> Resolved(Ok(NoVal), matches[1], TRUE)
                    [] OTHER -> Resolved(Err("InvalidHash"), 0, TRUE)
    ELSE Resolved(Err("InvalidHash"), 0, FALSE)

\* Variant: no lower bound on the length of an abbreviated hash.
find_commit_NoMinLen(g, q) ==
    IF OidFromStrOk(q) /\ Lookup(g, OidFromStr(q)) # {}
    THEN Resolved(Ok(NoVal), CHOOSE k \in Lookup(g, OidFromStr(q)) : TRUE, FALSE)
    ELSE IF Len(q) < FullHashLen
    THEN IF HeadUnborn(g)
         THEN Resolved(Err("GitOperationFailed:UnbornBranch"), 0, FALSE)
         ELSE LET matches == Matches(g, q)
              IN  CASE Len(matches) = 0 -> Resolved(Err("CheckpointNotFound"), 0, TRUE)
                    [] Len(matches) = 1 -> Resolved(Ok(NoVal), matches[1], TRUE)
                    [] OTHER -> Resolved(Err("InvalidHash"), 0, TRUE)
    ELSE Resolved(Err("InvalidHash"), 0, FALSE)

\* GitOperations::find_commit (DiffOperations::find_commit_by_hash is the
\* same code).  The message of the ambiguous error names the query only.
find_commit(g, q) ==
    IF OidFromStrOk(q) /\ Lookup(g, OidFromStr(q)) # {}
    THEN Resolved(Ok(NoVal), CHOOSE k \in Lookup(g, OidFromStr(q)) : TRUE, FALSE)
    ELSE IF Len(q) >= MinShortLen /\ Len(q) < FullHashLen
    THEN IF HeadUnborn(g)
         THEN Resolved(Err("GitOperationFailed:UnbornBranch"), 0, FALSE)
         ELSE LET matches == Matches(g, q)
              IN  CASE Len(matches) = 0 -> Resolved(Err("CheckpointNotFound"), 0, TRUE)
                    [] Len(matches) = 1 -> Resolved(Ok(NoVal), matches[1], TRUE)
                    [] OTHER -> Resolved(Err("InvalidHash"), 0, TRUE)
    ELSE Resolved(Err("InvalidHash"), 0, FALSE)

\* GitOperations::create_checkpoint
GitOperations_create_checkpoint(g, message, fail) ==
    LET e == ensure_ccg_branch(g)
    IN  IF ~e.res.ok THEN [g |-> e.g, res |-> e.res]
        ELSE LET result == create_commit_internal(e.g, message)
                 r == restore_original_branch(result.g, e.name, fail)
             IN  IF ~r.res.ok THEN [g |-> r.g, res |-> r.res]
                 ELSE [g |-> r.g, res |-> result.res]

\* Variant: the whole walk is listed, whatever the limit.
list_checkpoints_IgnoresLimit(g, limit) == Walk(g)

\* Variant: the commits are listed oldest first.
list_checkpoints_OldestFirst(g, limit) ==
    LET w == Walk(g)
        n == IF Len(w) <= limit THEN Len(w) ELSE limit
    IN  [i \in 1..n |-> w[Len(w) + 1 - i]]

\* GitOperations::list_checkpoints: the commits listed, newest first.
list_checkpoints(g, limit) ==
    LET w == Walk(g) IN IF Len(w) <= limit THEN w ELSE SubSeq(w, 1, limit)

\* One line of the listing: the 7-digit short hash and the first line of the
\* commit message (the commit time is not modelled).
ListEntry(g, k) == [short |-> Prefix(HashOf(k), 7), msg |-> g.commits[k].msg]

\* The lines GitOperations::list_checkpoints returns, in the order printed.
ListLines(g, limit) ==
    LET ids == list_checkpoints(g, limit)
    IN  [i \in 1..Len(ids) |-> ListEntry(g, ids[i])]

\* GitOperations::reset_branch_to_checkpoint
reset_branch_to_checkpoint(g, q) ==
    LET f == find_commit(g, q)
    IN  IF ~f.res.ok THEN [g |-> g, res |-> f.res]
        ELSE IF has_uncommitted_changes(g) THEN [g |-> g, res |-> Err("UncommittedChanges")]
        ELSE IF HeadUnborn(g) THEN [g |-> g, res |-> Err("GitOperationFailed:UnbornBranch")]
        ELSE IF ~g.head.attached THEN [g |-> g, res |-> Err("GitOperationFailed:NotFound")]
        ELSE [g |-> ResetHard(g, f.id), res |-> Ok(NoVal)]

\* GitOperations::get_head_commit: the commit HEAD resolves to.
get_head_commit(g) == HeadTarget(g)

\* Variant: the commits reachable from `to` are counted, `from` hides none.
count_commits_between_NoHide(g, from, to) == Cardinality(Reachable(g, to))

\* GitOperations::count_commits_between: revwalk with push(to), hide(from).
count_commits_between(g, from, to) ==
    Cardinality(Reachable(g, to) \ Reachable(g, from))

\* ------------------------------- CheckpointService (checkpoint_service.rs)
BootstrapErrors == {"BranchNotFound", "GitOperationFailed:NotFound",
                    "GitOperationFailed:UnbornBranch"}

\* execute_on_ccg_branch, lines 22-48: enter, with the bootstrap.
Enter(g) ==
    LET e == ensure_ccg_branch(g)
    IN  IF e.res.ok THEN e
        ELSE IF e.res.err \in BootstrapErrors
        THEN LET i == init_checkpoints(g)
             IN  IF ~i.res.ok THEN [g |-> i.g, res |-> i.res, name |-> ""]
                 ELSE ensure_ccg_branch(i.g)
        ELSE e

\* Variant: the error of leave replaces the body's result.
WrapperReturn_LeaveErrorWins(result, leave) == IF leave.ok THEN result ELSE leave

\* execute_on_ccg_branch, lines 53-65: leave, then the value handed to the
\* caller, given the body's result.
WrapperReturn(result, leave) == result

\* Variant: NoChangesToCommit is handed on as an error.
CreateBody_NoChangesIsError(g, message) ==
    GitOperations_create_checkpoint(g, message, FALSE)

\* The closures passed to execute_on_ccg_branch.  GitOperations::
\* create_checkpoint runs on 'ccg' here, so its own ensure_ccg_branch returns
\* 'ccg' and its restore_original_branch('ccg') does nothing.
CreateBody(g, message) ==
    LET r == GitOperations_create_checkpoint(g, message, FALSE)
    IN  IF r.res.ok THEN r
        ELSE IF r.res.err = "NoChangesToCommit" THEN [g |-> r.g, res |-> Ok(NoVal)]
        ELSE r

ShowBody(g, q) ==
    LET f == find_commit(g, q)
    IN  IF f.res.ok THEN Ok(NoVal)
        ELSE IF f.res.err = "InvalidHash" THEN Ok(NoVal)
        ELSE f.res

DiffBody(g, qa, hasB, qb) ==
    LET fa == find_commit(g, qa)
    IN  IF ~fa.res.ok THEN fa.res
        ELSE IF hasB THEN find_commit(g, qb).res
        ELSE Ok(NoVal)

\* The last resolution the body of diff makes, with its query.
DiffResolved(g, qa, hasB, qb) ==
    LET fa == find_commit(g, qa)
    IN  IF fa.res.ok /\ hasB THEN [q |-> qb, f |-> find_commit(g, qb)]
        ELSE [q |-> qa, f |-> fa]

\* CheckpointService::init
ServiceInit(g) == init_checkpoints(g)

\* CheckpointService::restore_checkpoint after ensure_ccg_branch (lines
\* 188-275); original_branch was read before the switch.  target is the
\* commit the hash resolved to (0 when it did not), warned the number of
\* checkpoints the warning printed before the reset announces as lost (0:
\* no warning).
RestoreBody(g, original_branch, q, fail) ==
    IF has_uncommitted_changes(g)
    THEN [g |-> IF original_branch # CCG_BRANCH_NAME
                THEN restore_original_branch(g, original_branch, fail).g
                ELSE g,
          res |-> Err("UncommittedChanges"), target |-> 0, warned |-> 0]
    ELSE LET target_commit == find_commit(g, q)
         IN  IF ~target_commit.res.ok
             THEN [g |-> g, res |-> target_commit.res, target |-> 0, warned |-> 0]
             ELSE IF get_head_commit(g) = 0
             THEN [g |-> g, res |-> Err("GitOperationFailed:UnbornBranch"),
                   target |-> target_commit.id, warned |-> 0]
             ELSE LET commits_ahead ==
                          count_commits_between(g, target_commit.id, get_head_commit(g))
                      r == reset_branch_to_checkpoint(g, q)
                  IN  [g |-> r.g, res |-> r.res, target |-> target_commit.id,
                       warned |-> commits_ahead]

\* ------------------------------------------------------------- invocation
Ops == {"init", "create", "list", "show", "diff", "restore"}
Wrapped == {"create", "list", "show", "diff"}

\* Hash arguments: a non-hex string and the 1-, 2-, 7-, 39- and 40-digit
\* prefixes of the hashes the object store can hold (a hash whose commit is
\* not stored or not reachable yet does not resolve).  validate_args rejects
\* an empty hash, but not an empty second hash of diff.
QueryLens == {1, 2, 7, FullHashLen - 1, FullHashLen}
Queries ==
    {<<NonHex, NonHex>>}
    \cup {Prefix(HashOf(k), n) : k \in 1..MaxCommits, n \in QueryLens}
SecondQueries == {<<>>, HashOf(1), Prefix(HashOf(MaxCommits), 7)}
Limits == {0, 1, 2, 10}

\* What an invocation found when it started: HEAD, whether it resolved to a
\* commit, the tip of 'ccg' and the size of the object store.
Snapshot(g) == [repo |-> g.repo, head |-> g.head,
                born |-> g.repo /\ HeadTarget(g) # 0,
                tip |-> g.refs[CCG_BRANCH_NAME], ncommits |-> Len(g.commits)]
NoSnapshot == [repo |-> FALSE, head |-> Attached(""), born |-> FALSE, tip |-> 0,
               ncommits |-> 0]

\* How enter (or init) obtained the reserved branch.
BootKind(before, after) ==
    IF before.repo /\ before.refs[CCG_BRANCH_NAME] # 0 THEN "none"
    ELSE IF Len(after.commits) > Len(before.commits) THEN "initial"
    ELSE IF after.refs[CCG_BRANCH_NAME] # 0 THEN "branch"
    ELSE "none"

\* The kind of directory an invocation started in.
StartKind(g) ==
    IF ~g.repo THEN "norepo"
    ELSE IF Len(g.commits) = 0 THEN "nohistory"
    ELSE "history"

NotResolved == Resolved(Ok(NoVal), 0, FALSE)
NoPrev == [op |-> "none", ok |-> FALSE, kind |-> "history", target |-> 0]
Idle == [op |-> "none", orig |-> "", result |-> Ok(NoVal), msg |-> "",
         boot |-> "none", leaveCalls |-> 0, start |-> NoSnapshot, prev |-> NoPrev,
         script |-> 0, limit |-> 0, query |-> <<>>, found |-> NotResolved]
NoLast == [op |-> "none", ret |-> Ok(NoVal), leaveCalls |-> 0, leaveOk |-> FALSE,
           entered |-> FALSE, body |-> Ok(NoVal), orig |-> "", boot |-> "none",
           kind |-> "history", script |-> 0, target |-> 0, warned |-> 0]

\* The init or create that the invocation starting now follows immediately,
\* with no file modification in between, or the successful restore it
\* follows (files may have been modified since), with the commit restored.
PrevOf ==
    IF last.op = "restore" /\ last.entered /\ last.ret.ok
    THEN [op |-> "restore", ok |-> TRUE, kind |-> last.kind, target |-> last.target]
    ELSE IF ~edited /\ last.op \in {"init", "create"}
    THEN [op |-> last.op, ok |-> last.ret.ok, kind |-> last.kind, target |-> 0]
    ELSE NoPrev

\* Position of the invocation starting now in the command sequence
\* "create first, change a file, create second, list": 1 for a create started
\* while no commit exists, 2 for a create that follows such a create after a
\* file that is not ignored was changed (the working tree differs from what
\* the first create staged), 3 for a list that follows that create; 0
\* otherwise.
ScriptAt(op) ==
    IF op = "create" /\ Len(commits) = 0 THEN 1
    ELSE IF /\ op = "create" /\ last.op = "create" /\ last.script = 1
            /\ \E p \in Paths \ Ignored : workdir[p] # index[p]
    THEN 2
    ELSE IF op = "list" /\ last.op = "create" /\ last.script = 2 THEN 3
    ELSE 0

\* The position is kept when the create was given the message of its place
\* in the sequence.
ScriptStep(script, m) ==
    IF (script = 1 /\ m = "first") \/ (script = 2 /\ m = "second") \/ script = 3
    THEN script ELSE 0

\* The object store is bounded: an invocation that would store a commit
\* beyond the bound is not taken.
WithinBound(g) == Len(g.commits) <= MaxCommits

\* The invocation returns to the caller.
Return(rec) ==
    /\ pc' = "Outside"
    /\ cur' = Idle
    /\ last' = rec
    /\ edited' = FALSE

\* ----------------------------------------------------------------- Init
UserTree == [p \in Paths |-> IF p = "a" THEN 1 ELSE 0]
UserTreeIg == [p \in Paths |-> 1]

EmptyRefs == [b \in Branches |-> 0]

\* The directories the tool is started in: no repository; a repository
\* without commits whose HEAD is attached to an unborn branch (git init);
\* a repository with one user commit on 'main' and HEAD attached to main,
\* the commit tracking the ignored file or not; the same with HEAD detached
\* at the commit; and, 'ccg' already created from the commit, with HEAD
\* attached to the unborn 'dev' (git switch --orphan dev: index and tracked
\* files emptied).
BornRepo(h, hasCcg, t, wd) ==
    [repo |-> TRUE, head |-> h,
     refs |-> [b \in Branches |-> IF b = "main" \/ (b = CCG_BRANCH_NAME /\ hasCcg)
                                  THEN 1 ELSE 0],
     commits |-> <<[parent |-> 0, tree |-> t, msg |-> UserMsg]>>,
     index |-> wd, workdir |-> wd]

StartRepos ==
    {[repo |-> FALSE, head |-> Attached(""), refs |-> EmptyRefs, commits |-> <<>>,
      index |-> EmptyTree, workdir |-> EmptyTree]}
    \cup {[repo |-> TRUE, head |-> Attached(b), refs |-> EmptyRefs, commits |-> <<>>,
           index |-> EmptyTree, workdir |-> EmptyTree] : b \in {"main", "dev"}}
    \cup {BornRepo(Attached("main"), FALSE, t, t) : t \in {UserTree, UserTreeIg}}
    \cup {BornRepo(Detached(1), FALSE, UserTree, UserTree),
          BornRepo(Attached("dev"), TRUE, UserTree, EmptyTree)}

Init ==
    /\ \E s \in StartRepos : /\ repo = s.repo
                             /\ head = s.head
                             /\ refs = s.refs
                             /\ commits = s.commits
                             /\ index = s.index
                             /\ workdir = s.workdir
    /\ pc = "Outside"
    /\ cur = Idle
    /\ last = NoLast
    /\ edited = FALSE
    /\ probe = <<>>
    /\ render = <<>>
    /\ procs = <<>>

\* ---------------------------------------------------------------- actions
\* The user modifies, creates or deletes a file between two invocations.
UserEdit(p, c) ==
    /\ pc = "Outside"
    /\ UNCHANGED sidevars
    /\ workdir[p] # c
    /\ workdir' = [workdir EXCEPT ![p] = c]
    /\ edited' = TRUE
    /\ UNCHANGED <<repo, head, refs, commits, index, pc, cur, last>>

\* The outcome of an invocation that returns without having entered.
Outcome(op, ret, g) ==
    [op |-> op, ret |-> ret, leaveCalls |-> 0, leaveOk |-> FALSE, entered |-> FALSE,
     body |-> Ok(NoVal), orig |-> "", boot |-> BootKind(Git, g), kind |-> StartKind(Git),
     script |-> ScriptAt(op), target |-> 0, warned |-> 0]

\* main.rs run(): list, restore, show and diff in a directory that is not a
\* repository print a hint and return.
NotARepository(op) ==
    /\ pc = "Outside"
    /\ UNCHANGED sidevars
    /\ ~repo
    /\ op \in Ops \ {"init", "create"}
    /\ Return(Outcome(op, Ok(NoVal), Git))
    /\ UNCHANGED gitvars

\* ListCommand::validate_args
ListCommand_validate_args(number) ==
    IF number = 0 THEN Err("InvalidArgument") ELSE Ok(NoVal)

\* validate_args of restore, show and diff rejects an empty hash, that of
\* list a limit of 0; main.rs returns the error before execute is called.
InvalidArgument(op) ==
    /\ pc = "Outside"
    /\ UNCHANGED sidevars
    /\ repo
    /\ op \in {"list", "restore", "show", "diff"}
    /\ \E v \in IF op = "list" THEN {ListCommand_validate_args(n) : n \in Limits}
                 ELSE {Err("InvalidArgument")} :
           /\ ~v.ok
           /\ Return(Outcome(op, v, Git))
    /\ UNCHANGED gitvars

\* ccg init: CommandContext::new, then CheckpointService::init.
InvokeInit ==
    /\ pc = "Outside"
    /\ UNCHANGED sidevars
    /\ LET r == ServiceInit(GitOperations_new(Git))
       IN  /\ WithinBound(r.g)
           /\ SetGit(r.g)
           /\ Return(Outcome("init", r.res, r.g))

\* ccg create|list|show|diff: CommandContext::new, then the first part of
\* execute_on_ccg_branch (enter).  When enter fails the invocation returns.
InvokeWrapped(op) ==
    /\ pc = "Outside"
    /\ UNCHANGED sidevars
    /\ op \in Wrapped
    /\ op = "create" \/ repo
    /\ LET e == Enter(GitOperations_new(Git))
       IN  /\ WithinBound(e.g)
           /\ SetGit(e.g)
           /\ IF e.res.ok
              THEN /\ pc' = "Inside"
                   /\ cur' = [Idle EXCEPT !.op = op, !.orig = e.name,
                                          !.boot = BootKind(Git, e.g),
                                          !.start = Snapshot(Git), !.prev = PrevOf,
                                          !.script = ScriptAt(op)]
                   /\ UNCHANGED <<last, edited>>
              ELSE Return(Outcome(op, e.res, e.g))

\* Variant: the body's error is propagated at once (operation(..)?), leave
\* is skipped.
AfterBody_EarlyReturn(result) == IF result.ok THEN "Restoring" ELSE "Outside"

\* execute_on_ccg_branch, line 51: the body's result is kept, whatever it is,
\* and control goes on to leave.
AfterBody(result) == "Restoring"

\* The outcome of an invocation that entered: what the caller receives, the
\* body's result and whether leave succeeded.
Entered(ret, body, leaveOk) ==
    [op |-> cur.op, ret |-> ret, leaveCalls |-> cur.leaveCalls, leaveOk |-> leaveOk,
     entered |-> TRUE, body |-> body, orig |-> cur.orig, boot |-> cur.boot,
     kind |-> IF ~cur.start.repo THEN "norepo"
              ELSE IF cur.start.ncommits = 0 THEN "nohistory" ELSE "history",
     script |-> cur.script, target |-> 0, warned |-> 0]

\* The operation body, run on 'ccg', with the arguments of the invocation.
BodyStep(r, m, n, q, f) ==
    /\ WithinBound(r.g)
    /\ SetGit(r.g)
    /\ IF AfterBody(r.res) = "Restoring"
       THEN /\ pc' = "Restoring"
            /\ cur' = [cur EXCEPT !.result = r.res, !.msg = m, !.limit = n,
                                  !.query = q, !.found = f,
                                  !.script = ScriptStep(cur.script, m)]
            /\ UNCHANGED <<last, edited>>
       ELSE Return(Entered(r.res, r.res, FALSE))

BodyCreate(m) ==
    /\ pc = "Inside"
    /\ UNCHANGED sidevars
    /\ cur.op = "create"
    /\ BodyStep(CreateBody(Git, m), m, 0, <<>>, NotResolved)

BodyList(limit) ==
    /\ pc = "Inside"
    /\ UNCHANGED sidevars
    /\ cur.op = "list"
    /\ ListCommand_validate_args(limit).ok
    /\ BodyStep([g |-> Git, res |-> Ok(ListLines(Git, limit))], "", limit, <<>>,
                NotResolved)

BodyShow(q) ==
    /\ pc = "Inside"
    /\ UNCHANGED sidevars
    /\ cur.op = "show"
    /\ BodyStep([g |-> Git, res |-> ShowBody(Git, q)], "", 0, q, find_commit(Git, q))

BodyDiff(q, hasB, qb) ==
    /\ pc = "Inside"
    /\ UNCHANGED sidevars
    /\ cur.op = "diff"
    /\ LET d == DiffResolved(Git, q, hasB, qb)
       IN  BodyStep([g |-> Git, res |-> DiffBody(Git, q, hasB, qb)], "", 0, d.q, d.f)

\* execute_on_ccg_branch, lines 53-65: leave, then return the body's result.
Leave(fail) ==
    /\ pc = "Restoring"
    /\ UNCHANGED sidevars
    /\ LET l == restore_original_branch(Git, cur.orig, fail)
       IN  /\ SetGit(l.g)
           /\ Return([Entered(WrapperReturn(cur.result, l.res), cur.result, l.res.ok)
                        EXCEPT !.leaveCalls = cur.leaveCalls + 1])

\* ccg restore: the user is asked to confirm; declined, nothing happens.
RestoreDeclined ==
    /\ pc = "Outside"
    /\ UNCHANGED sidevars
    /\ repo
    /\ Return(Outcome("restore", Ok(NoVal), Git))
    /\ UNCHANGED gitvars

\* ccg restore, confirmed: restore_checkpoint up to ensure_ccg_branch.
InvokeRestore ==
    /\ pc = "Outside"
    /\ UNCHANGED sidevars
    /\ repo
    /\ LET e == ensure_ccg_branch(Git)
       IN  /\ SetGit(e.g)
           /\ IF e.res.ok
              THEN /\ pc' = "Inside"
                   /\ cur' = [Idle EXCEPT !.op = "restore",
                                          !.orig = get_current_branch_name(Git),
                                          !.start = Snapshot(Git), !.prev = PrevOf]
                   /\ UNCHANGED <<last, edited>>
              ELSE Return(Outcome("restore", e.res, e.g))

\* restore_checkpoint from the uncommitted-changes check to its return.
BodyRestore(q, fail) ==
    /\ pc = "Inside"
    /\ UNCHANGED sidevars
    /\ cur.op = "restore"
    /\ LET r == RestoreBody(Git, cur.orig, q, fail)
       IN  /\ SetGit(r.g)
           /\ Return([Entered(r.res, r.res, FALSE)
                        EXCEPT !.target = r.target, !.warned = r.warned])

Next ==
    \/ \E p \in Paths, c \in Contents : UserEdit(p, c)
    \/ \E op \in Ops : NotARepository(op)
    \/ \E op \in Ops : InvalidArgument(op)
    \/ InvokeInit
    \/ \E op \in Wrapped : InvokeWrapped(op)
    \/ \E m \in Msgs : BodyCreate(m)
    \/ \E n \in Limits : BodyList(n)
    \/ \E q \in Queries : BodyShow(q)
    \/ \E q \in Queries, hasB \in BOOLEAN, qb \in SecondQueries : BodyDiff(q, hasB, qb)
    \/ \E fail \in BOOLEAN : Leave(fail)
    \/ RestoreDeclined
    \/ InvokeRestore
    \/ \E q \in Queries, fail \in BOOLEAN : BodyRestore(q, fail)

Spec == Init /\ [][Next]_vars

\* ----------------------------------------------------------------- claims
\* The running invocation started with HEAD attached to an existing branch
\* other than 'ccg'.
StartedOnUserBranch ==
    /\ cur.start.repo
    /\ cur.start.born
    /\ cur.start.head.attached
    /\ cur.start.head.branch # CCG_BRANCH_NAME

\* C1: create, list, show and diff started with HEAD attached to an existing
\* branch B other than 'ccg': when the body returns, with success or with an
\* error, no leave has been called and control goes to leave; leave is then
\* called exactly once and the invocation returns; when that leave succeeded
\* HEAD is attached to B again.
C1_LeaveOnceAndBack ==
    [][(cur.op \in Wrapped /\ StartedOnUserBranch) =>
          /\ pc = "Inside" => (pc' = "Restoring" /\ cur'.leaveCalls = 0)
          /\ pc = "Restoring" =>
                /\ pc' = "Outside"
                /\ last'.leaveCalls = 1
                /\ last'.leaveOk => head' = cur.start.head]_vars

\* C1 witness: a wrapped operation started on main whose body failed has
\* returned, leave was called once and succeeded, HEAD is attached to main.
C1_Witness ==
    /\ pc = "Outside"
    /\ last.op \in Wrapped
    /\ last.entered
    /\ ~last.body.ok
    /\ last.leaveCalls = 1
    /\ last.leaveOk
    /\ last.orig = "main"
    /\ last.kind = "history"
    /\ head = Attached("main")
    /\ refs["main"] # 0

\* C7: the caller of the wrapper receives the body's result, whether leave
\* succeeded or failed.
C7_ResultIndependentOfLeave ==
    (pc = "Outside" /\ last.op \in Wrapped /\ last.entered) => last.ret = last.body

\* C7 witness: the body succeeded, switching back failed, and the caller
\* received the success.
C7_Witness ==
    /\ pc = "Outside"
    /\ last.op \in Wrapped
    /\ last.entered
    /\ last.leaveCalls = 1
    /\ ~last.leaveOk
    /\ last.body.ok
    /\ last.ret.ok

\* The running restore started with HEAD attached to an existing branch
\* other than 'ccg' and is about to return.
RestoreReturning == pc = "Inside" /\ cur.op = "restore" /\ StartedOnUserBranch

C3_RestoreFailureEndsOnOriginal ==
    [][(RestoreReturning /\ ~has_uncommitted_changes(Git)
          /\ last'.ret.err \in {"CheckpointNotFound", "InvalidHash"}) =>
          head' = cur.start.head]_vars

\* C4 as stated: no step of init, create, list, show, diff or restore, the
\* bootstrap included, moves or creates a branch other than 'ccg'.
C4_OnlyCcgWritten ==
    [][\A b \in Branches \ {CCG_BRANCH_NAME} : refs'[b] = refs[b]]_vars

\* C5 as stated: when a wrapped operation is invoked and there is no commit
\* yet (no repository, or HEAD attached to an unborn branch), enter succeeds:
\* one initial commit exists afterwards, 'ccg' points at it, HEAD is attached
\* to 'ccg' and the operation body runs next.
C5_BootstrapForEveryUnbornHead ==
    [][(Len(commits) = 0 /\ \E op \in Wrapped : InvokeWrapped(op)) =>
          /\ pc' = "Inside"
          /\ Len(commits') = 1
          /\ refs'[CCG_BRANCH_NAME] = 1
          /\ head' = Attached(CCG_BRANCH_NAME)]_vars

\* C6 as stated, where the reserved branch exists and HEAD is attached to a
\* branch: enter returns the name of that branch and leaves HEAD attached to
\* 'ccg'; when the branch is 'ccg' nothing changes, 'ccg' is returned and the
\* matching leave changes nothing.
C6_EnterReturnsActiveBranch ==
    [][/\ (repo /\ refs[CCG_BRANCH_NAME] # 0 /\ head.attached
             /\ \E op \in Wrapped : InvokeWrapped(op)) =>
             /\ pc' = "Inside"
             /\ cur'.orig = head.branch
             /\ head' = Attached(CCG_BRANCH_NAME)
             /\ head.branch = CCG_BRANCH_NAME => UNCHANGED gitvars
       /\ (pc = "Restoring" /\ cur.orig = CCG_BRANCH_NAME) => UNCHANGED gitvars]_vars

\* The body of the running create has returned.
CreateDone == pc = "Restoring" /\ cur.op = "create"

\* Since the create started: no commit was stored, the tip of 'ccg' is what
\* it was, and the (empty) success value is the body's result.
NothingCreated ==
    /\ Len(commits) = cur.start.ncommits
    /\ refs[CCG_BRANCH_NAME] = cur.start.tip
    /\ cur.result = Ok(NoVal)

\* C8 as stated: a create that immediately follows a successful create or a
\* successful bootstrap (init), with no file modification in between, adds
\* no commit, leaves the tip of 'ccg' unchanged and returns the empty
\* success value.
C8_CreateIdempotentAfterCreateOrBootstrap ==
    (CreateDone /\ cur.prev.op \in {"create", "init"} /\ cur.prev.ok) => NothingCreated

\* C8 amended: a create that immediately follows a successful create, with
\* no file modification in between, adds no commit, leaves the tip of 'ccg'
\* unchanged and returns the empty success value.
C8_CreateIdempotentAfterCreate ==
    (CreateDone /\ cur.prev.op = "create" /\ cur.prev.ok) => NothingCreated

\* C8 witness: the body of a create that follows a successful create with no
\* modification in between has returned from a repository that holds a
\* checkpoint made by a create.
C8_Witness ==
    /\ CreateDone
    /\ cur.prev.op = "create"
    /\ cur.prev.ok
    /\ refs[CCG_BRANCH_NAME] # 0
    /\ commits[refs[CCG_BRANCH_NAME]].msg \in Msgs
    /\ \E p \in Paths : workdir[p] # 0

\* The create that is running was invoked while the working tree differed
\* from the tip of 'ccg' or, there being no commit at all, while a
\* non-ignored file existed.  (The body leaves the working tree alone.)
CreateHadChanges ==
    IF cur.start.tip # 0
    THEN AddAll(EmptyTree, workdir) # commits[cur.start.tip].tree
    ELSE cur.start.ncommits = 0 /\ \E p \in Paths \ Ignored : workdir[p] # 0

\* C9 as stated: such a create adds exactly one commit, with the supplied
\* message and the previous tip as its only parent (none if there was no
\* tip), 'ccg' points at it and its hash is the value returned.
C9_CreateAddsOneCommit ==
    (CreateDone /\ CreateHadChanges) =>
        LET id == cur.start.ncommits + 1
        IN  /\ Len(commits) = id
            /\ commits[id].msg = cur.msg
            /\ commits[id].parent = cur.start.tip
            /\ refs[CCG_BRANCH_NAME] = id
            /\ cur.result = Ok(HashOf(id))

\* C10 as stated: in a directory without history (no repository, or a
\* repository without commits) init succeeds, the create that follows
\* succeeds, exactly one commit is reachable from 'ccg', and leave is given
\* the branch HEAD was attached to when the create started.
C10_InitThenCreate ==
    (CreateDone /\ cur.prev.op = "init" /\ cur.prev.kind # "history") =>
        /\ cur.prev.ok
        /\ cur.result.ok
        /\ refs[CCG_BRANCH_NAME] # 0
        /\ Cardinality(Reachable(Git, refs[CCG_BRANCH_NAME])) = 1
        /\ cur.start.born => cur.orig = cur.start.head.branch

\* The body of a list(10) has returned that follows create("second"), which
\* followed, after a file change, a create("first") started while no commit
\* existed.
ScriptListed == pc = "Restoring" /\ cur.op = "list" /\ cur.script = 3 /\ cur.limit = 10

\* C11: starting without any commit (no repository, or a repository without
\* history), create("first"), then create("second") after a file was changed,
\* then list(10): the listing has exactly 2 entries, the newer commit first,
\* and the first entry carries the message "second".
C11_TwoEntriesNewestFirst ==
    ScriptListed =>
        /\ cur.result.ok
        /\ Len(cur.result.val) = 2
        /\ Len(commits) = 2
        /\ cur.result.val[1] = ListEntry(Git, 2)
        /\ cur.result.val[2] = ListEntry(Git, 1)
        /\ cur.result.val[1].msg = "second"

\* C11 witness: the list at the end of that sequence has produced its
\* listing, started in a directory that was no repository.
C11_Witness ==
    /\ ScriptListed
    /\ cur.result.ok
    /\ Len(cur.result.val) = 2
    /\ commits[1].msg = DEFAULT_COMMIT_MESSAGE
    /\ refs["main"] = 0

\* The body of the running show or diff has returned: cur.query is the hash
\* it resolved last and cur.found the outcome of that resolution.  The body
\* leaves the repository as it is, with HEAD on 'ccg'.
ResolveDone == pc = "Restoring" /\ cur.op \in {"show", "diff"}

\* The commits reachable from the tip of 'ccg' whose hash starts with q.
ReachableMatches(q) ==
    {k \in Reachable(Git, refs[CCG_BRANCH_NAME]) : StartsWith(HashOf(k), q)}

\* C12 as stated: a query p with 2 <= len(p) < 40 resolves to the unique
\* commit reachable from the tip of 'ccg' whose hash starts with p when there
\* is exactly one, fails with CheckpointNotFound when there is none and with
\* InvalidHash when there are several.
C12_PrefixResolution ==
    (ResolveDone /\ Len(cur.query) >= MinShortLen /\ Len(cur.query) < FullHashLen) =>
        LET n == Cardinality(ReachableMatches(cur.query))
        IN  /\ n = 1 => (cur.found.res.ok /\ cur.found.id \in ReachableMatches(cur.query))
            /\ n = 0 => cur.found.res = Err("CheckpointNotFound")
            /\ n > 1 => cur.found.res = Err("InvalidHash")

\* C13 as stated: when the prefix resolved last matched n > 1 commits of the
\* walk, the error carries the first min(n, 5) of them in walk order as
\* (short hash, first message line) pairs and, when n > 5, the number n - 5
\* of matches left out.
C13_AmbiguousErrorCarriesCandidates ==
    (ResolveDone /\ cur.found.walked /\ Len(Matches(Git, cur.query)) > 1) =>
        LET m == Matches(Git, cur.query)
            shown == IF Len(m) <= 5 THEN Len(m) ELSE 5
        IN  /\ cur.found.res = Err("InvalidHash")
            /\ Len(cur.found.candidates) = shown
            /\ \A i \in 1..shown :
                  i <= Len(cur.found.candidates)
                     => cur.found.candidates[i] = ListEntry(Git, m[i])
            /\ Len(m) > 5 => cur.found.remaining = Len(m) - 5

\* C14: a query of fewer than 2 characters, the empty string included, fails
\* with InvalidHash, and no revision walk is started for it.
C14_TooShortIsInvalid ==
    (ResolveDone /\ Len(cur.query) < MinShortLen) =>
        /\ cur.found.res = Err("InvalidHash")
        /\ ~cur.found.walked

\* C14 witness: a diff was given the empty string as its second hash, with
\* two commits on 'ccg', and the resolution of it has failed.
C14_Witness ==
    /\ ResolveDone
    /\ cur.query = <<>>
    /\ ~cur.found.res.ok
    /\ Cardinality(Reachable(Git, refs[CCG_BRANCH_NAME])) = 2

\* C15: a query of 40 characters that is the hash of a commit in the object
\* store resolves to that commit by direct lookup, without a revision walk,
\* whether the commit is reachable from the tip of 'ccg' or not.
C15_FullHashDirectLookup ==
    (ResolveDone /\ Len(cur.query) = FullHashLen
        /\ \E k \in 1..Len(commits) : HashOf(k) = cur.query) =>
        /\ cur.found.res.ok
        /\ cur.found.id \in 1..Len(commits)
        /\ HashOf(cur.found.id) = cur.query
        /\ ~cur.found.walked

\* C15 witness: the full hash of a commit that is not reachable from the tip
\* of 'ccg' has been resolved.
C15_Witness ==
    /\ ResolveDone
    /\ Len(cur.query) = FullHashLen
    /\ cur.found.res.ok
    /\ cur.found.id \notin Reachable(Git, refs[CCG_BRANCH_NAME])

\* The running restore is at its check for uncommitted changes (HEAD has
\* been pointed at 'ccg', nothing else was touched) and there are some.
RestoreDirty == pc = "Inside" /\ cur.op = "restore" /\ has_uncommitted_changes(Git)

\* C16 as stated: a restore that finds uncommitted changes fails with
\* UncommittedChanges and has mutated nothing when it returns: the working
\* tree, the index, the tip of 'ccg' and of every other branch are what they
\* were, and HEAD is what it was when the restore started (or still on 'ccg'
\* when the backend could not write HEAD to switch back).
C16_DirtyRestoreMutatesNothing ==
    [][RestoreDirty =>
          /\ pc' = "Outside"
          /\ last'.ret = Err("UncommittedChanges")
          /\ workdir' = workdir
          /\ index' = index
          /\ refs' = refs
          /\ commits' = commits
          /\ head' \in {cur.start.head, Attached(CCG_BRANCH_NAME)}]_vars

\* The step in which the running restore returns with success.
RestoreSucceeds == pc = "Inside" /\ cur.op = "restore" /\ last'.ret.ok

\* The commits reachable from the tip of 'ccg', before and after a step.
CcgReach == Reachable(Git, refs[CCG_BRANCH_NAME])
CcgReachAfter == Reachable([Git EXCEPT !.commits = commits'], refs'[CCG_BRANCH_NAME])

\* C17: a successful restore leaves the tip of 'ccg' at the commit h the hash
\* resolved to, and no commit that descended from h in the previous ancestry
\* of 'ccg' is reachable from 'ccg' any more; the list(1) that follows shows
\* exactly h; a create that follows and stores a commit gives it h as parent.
C17_RestoreMovesTip ==
    [][/\ RestoreSucceeds =>
             /\ last'.target \in 1..Len(commits)
             /\ refs'[CCG_BRANCH_NAME] = last'.target
             /\ \A k \in CcgReach :
                   (k # last'.target /\ last'.target \in Reachable(Git, k))
                      => k \notin CcgReachAfter
       /\ (pc = "Inside" /\ cur.op = "list" /\ cur.prev.op = "restore"
             /\ cur'.limit = 1) =>
             cur'.result = Ok(<<ListEntry(Git, cur.prev.target)>>)
       /\ (pc = "Inside" /\ cur.op = "create" /\ cur.prev.op = "restore"
             /\ Len(commits') > Len(commits)) =>
             /\ commits'[Len(commits')].parent = cur.prev.target
             /\ refs'[CCG_BRANCH_NAME] = Len(commits')]_vars

\* C17 witness: list(1) has run after a restore that made a checkpoint
\* created after the restored one unreachable from 'ccg'.
C17_Witness ==
    /\ pc = "Restoring"
    /\ cur.op = "list"
    /\ cur.prev.op = "restore"
    /\ cur.limit = 1
    /\ \E k \in 1..Len(commits) :
          /\ k \notin CcgReach
          /\ k # cur.prev.target
          /\ cur.prev.target \in Reachable(Git, k)

C19_ConfirmAndWarnBeforeReset ==
    [][/\ (pc = "Outside" /\ pc' = "Outside" /\ ~edited' /\ last'.op = "restore"
             /\ last'.ret.ok) =>
             UNCHANGED gitvars
       /\ (pc = "Inside" /\ cur.op = "restore") =>
             /\ last'.warned = Cardinality(CcgReach \ CcgReachAfter)
             /\ ~last'.ret.ok => UNCHANGED <<refs, commits, index, workdir>>]_vars

\* C19 witness: a confirmed restore has succeeded after announcing the loss
\* of one checkpoint, which is no longer reachable from 'ccg'.
C19_Witness ==
    /\ pc = "Outside"
    /\ last.op = "restore"
    /\ last.ret.ok
    /\ last.warned = 1
    /\ Cardinality(CcgReach) = 1
    /\ Len(commits) = 2

\* C20 as stated, for the hash that does not resolve: when the resolution
\* made by the body of show or diff failed (not found, ambiguous, too short),
\* the body's result, which is what the caller receives, is an error; and a
\* restore that entered and resolved no commit has returned an error.
C20_UnresolvedHashIsError ==
    /\ (ResolveDone /\ ~cur.found.res.ok) => ~cur.result.ok
    /\ (pc = "Outside" /\ last.op = "restore" /\ last.entered /\ last.target = 0)
          => ~last.ret.ok

\* ------------------------------------------ CreateCommand (create.rs)
\* Texts (the message argument, the data on standard input, the commit
\* message) are sequences of tokens.  A token is white space, a word, or the
\* text of one JSON document; JsonDoc is what serde_json reads from it.
MaxStdin == 3            \* tokens written to standard input
MaxLiveStdin == 1        \* the same, where termination is checked
ProbeTicks == 2          \* clock ticks that make up the probe's timeout
WS == "\n"
Words == {"note"}
DocTexts == {"{Edit src/f.rs patch}", "{Write}", "{Edit src/}", "{Edit 7}",
             "{Edit f.rs cwd}", "{tool_name}"}
StdinTokens == {WS} \cup Words \cup DocTexts

NoPath == [kind |-> "absent", segs |-> <<>>]
StrPath(segs) == [kind |-> "str", segs |-> segs]
HookDoc(tool, path, patch, cwd, input) ==
    [hook |-> TRUE, tool_name |-> tool, file_path |-> path,
     structured_patch |-> patch, cwd |-> cwd, tool_input |-> input]
NoPatch == [some |-> FALSE, lines |-> <<>>]
Patch(lines) == [some |-> TRUE, lines |-> lines]

\* serde_json::from_str::<HookData> on one document: tool_name,
\* tool_response and tool_input are required, cwd and structuredPatch are
\* optional; tool_input.file_path is absent, a string (its '/'-separated
\* segments are kept) or another JSON value.
JsonDoc(t) ==
    CASE t = "{Edit src/f.rs patch}" ->
             HookDoc("Edit", StrPath(<<"src", "f.rs">>), Patch(<<"-a", "+b">>), FALSE, t)
      [] t = "{Write}" -> HookDoc("Write", NoPath, NoPatch, FALSE, t)
      [] t = "{Edit src/}" -> HookDoc("Edit", StrPath(<<"src", "">>), NoPatch, FALSE, t)
      [] t = "{Edit 7}" ->
             HookDoc("Edit", [kind |-> "other", segs |-> <<>>], NoPatch, FALSE, t)
      [] t = "{Edit f.rs cwd}" -> HookDoc("Edit", StrPath(<<"f.rs">>), NoPatch, TRUE, t)
      [] OTHER -> [HookDoc("", NoPath, NoPatch, FALSE, t) EXCEPT !.hook = FALSE]

RECURSIVE TrimStart(_)
TrimStart(s) == IF s # <<>> /\ Head(s) = WS THEN TrimStart(Tail(s)) ELSE s
RECURSIVE TrimEnd(_)
TrimEnd(s) ==
    IF s # <<>> /\ s[Len(s)] = WS THEN TrimEnd(SubSeq(s, 1, Len(s) - 1)) ELSE s
\* str::trim
Trim(s) == TrimEnd(TrimStart(s))

\* serde_json::from_str::<HookData>: white space around the document is
\* skipped, anything else around it is an error.
from_str(s) ==
    LET t == Trim(s)
    IN  IF Len(t) = 1 /\ t[1] \in DocTexts /\ JsonDoc(t[1]).hook
        THEN Ok(JsonDoc(t[1]))
        ELSE Err("Json")

RECURSIVE PatchLines(_)
PatchLines(lines) ==
    IF lines = <<>> THEN <<>>
    ELSE <<"  ", Head(lines), "\n">> \o PatchLines(Tail(lines))

RECURSIVE Join(_)
Join(segs) ==
    IF Len(segs) <= 1 THEN segs ELSE <<Head(segs), "/">> \o Join(Tail(segs))

\* The text that follows the title.
MessageBody(data) ==
    <<"\n\n">>
    \o (IF data.structured_patch.some
        THEN <<"Changes:\n">> \o PatchLines(data.structured_patch.lines) \o <<"\n">>
        ELSE <<>>)
    \o <<"Tool Input:\n", data.tool_input>>

\* Variant: the title names the whole path.
format_commit_message_WholePath(data) ==
    LET p == data.file_path
    IN  (IF p.kind # "str" \/ p.segs = <<"">>
         THEN <<data.tool_name>>
         ELSE <<data.tool_name, " on ">> \o Join(p.segs))
        \o MessageBody(data)

\* CreateCommand::format_commit_message.
format_commit_message(data) ==
    LET p == data.file_path
        file_path == IF p.kind = "str" THEN p.segs[Len(p.segs)] ELSE ""
        title == IF file_path = "" THEN <<data.tool_name>>
                 ELSE <<data.tool_name, " on ", file_path>>
    IN  title \o MessageBody(data)

None == [some |-> FALSE, val |-> <<>>]
Some(v) == [some |-> TRUE, val |-> v]

\* CreateCommand::execute, lines 99-124: the message, and whether the
\* payload names another directory, given what recv_timeout returned.
ChooseMessage(received) ==
    IF received.some /\ Trim(received.val) # <<>>
    THEN LET parsed == from_str(received.val)
         IN  IF parsed.ok
             THEN [message |-> format_commit_message(parsed.val),
                   cwd |-> parsed.val.cwd]
             ELSE [message |-> received.val, cwd |-> FALSE]
    ELSE [message |-> <<"Manual checkpoint">>, cwd |-> FALSE]

\* ccg create: the message argument, when given.
MessageArgs == {None, Some(<<"msg">>), Some(<<>>)}

ProbeStart(arg, quota) ==
    [phase |-> "New", arg |-> arg, quota |-> quota, stdin |-> <<>>, eof |-> FALSE,
     reader |-> "unspawned", chan |-> <<>>, clock |-> 0, received |-> None,
     message |-> None, cwd |-> FALSE, orig |-> "", result |-> Ok(NoVal),
     ret |-> Ok(NoVal), made |-> 0, backend |-> 0, elsewhere |-> None]

\* The directories create is started in here: no repository, and a
\* repository with a user commit on 'main' and a deleted file, with and
\* without 'ccg'.
CreateRepos ==
    {s \in StartRepos : ~s.repo}
    \cup {[BornRepo(Attached("main"), c, UserTree, UserTree)
             EXCEPT !.workdir = EmptyTree] : c \in BOOLEAN}

CreateStart(quota) ==
    /\ \E s \in CreateRepos : /\ repo = s.repo
                              /\ head = s.head
                              /\ refs = s.refs
                              /\ commits = s.commits
                              /\ index = s.index
                              /\ workdir = s.workdir
    /\ pc = "Outside"
    /\ cur = Idle
    /\ last = NoLast
    /\ edited = FALSE
    /\ \E a \in MessageArgs : probe = ProbeStart(a, quota)
    /\ render = <<>>
    /\ procs = <<>>

CreateInit == CreateStart(MaxStdin)
CreateLiveInit == CreateStart(MaxLiveStdin)

CreateFrame == UNCHANGED <<mainvars, render, procs>>

\* The process at the other end of standard input writes.
StdinWrite(t) ==
    /\ ~probe.eof
    /\ Len(probe.stdin) < probe.quota
    /\ probe' = [probe EXCEPT !.stdin = Append(@, t)]
    /\ UNCHANGED gitvars
    /\ CreateFrame

\* Standard input reaches end of file.
StdinClose ==
    /\ ~probe.eof
    /\ probe' = [probe EXCEPT !.eof = TRUE]
    /\ UNCHANGED gitvars
    /\ CreateFrame

\* main.rs, line 97: CommandContext::new opens the repository, initialising
\* it when there is none.
OpenContext ==
    /\ probe.phase = "New"
    /\ SetGit(GitOperations_new(Git))
    /\ probe' = [probe EXCEPT !.phase = "Start"]
    /\ CreateFrame

\* execute, lines 82-88: a message argument is used, nothing is read.
ExplicitMessage ==
    /\ probe.phase = "Start"
    /\ probe.arg.some
    /\ probe' = [probe EXCEPT !.phase = "Decided", !.message = Some(probe.arg.val)]
    /\ UNCHANGED gitvars
    /\ CreateFrame

\* execute, lines 91-97: the reader thread is spawned.
SpawnReader ==
    /\ probe.phase = "Start"
    /\ ~probe.arg.some
    /\ probe' = [probe EXCEPT !.phase = "Waiting", !.reader = "reading"]
    /\ UNCHANGED gitvars
    /\ CreateFrame

\* The reader thread: read_to_string returns at end of file and the data is
\* sent (to nobody, once the receiver is gone).
ReaderSend ==
    /\ probe.reader = "reading"
    /\ probe.eof
    /\ probe' = [probe EXCEPT !.reader = "sent", !.chan = <<probe.stdin>>]
    /\ UNCHANGED gitvars
    /\ CreateFrame

\* The reader thread: read_to_string fails (the data is not UTF-8, the
\* descriptor is closed); nothing is sent and the sender is dropped.
ReaderFail ==
    /\ probe.reader = "reading"
    /\ probe' = [probe EXCEPT !.reader = "failed"]
    /\ UNCHANGED gitvars
    /\ CreateFrame

\* Time passes while the command waits in recv_timeout.
Tick ==
    /\ probe.phase = "Waiting"
    /\ probe.clock < ProbeTicks
    /\ probe' = [probe EXCEPT !.clock = @ + 1]
    /\ UNCHANGED gitvars
    /\ CreateFrame

Decide(received) ==
    LET c == ChooseMessage(received)
    IN  probe' = [probe EXCEPT !.phase = "Decided", !.received = received,
                               !.message = Some(c.message), !.cwd = c.cwd]

\* recv_timeout returns the data the reader sent.
Receive ==
    /\ probe.phase = "Waiting"
    /\ probe.chan # <<>>
    /\ Decide(Some(probe.chan[1]))
    /\ UNCHANGED gitvars
    /\ CreateFrame

\* Variant: a plain recv(), which returns Err only when the sender was
\* dropped.
ReceiveNothing_NoTimeout ==
    /\ probe.phase = "Waiting"
    /\ probe.reader = "failed"
    /\ Decide(None)
    /\ UNCHANGED gitvars
    /\ CreateFrame

\* recv_timeout returns Err: the timeout has passed, or the sender was
\* dropped without sending.
ReceiveNothing ==
    /\ probe.phase = "Waiting"
    /\ probe.clock = ProbeTicks \/ probe.reader = "failed"
    /\ Decide(None)
    /\ UNCHANGED gitvars
    /\ CreateFrame

\* execute, lines 104-111: the payload names a directory; the checkpoint is
\* made in the repository there, or opening it fails.
CreateElsewhere(ok) ==
    /\ probe.phase = "Decided"
    /\ probe.cwd
    /\ probe' = [probe EXCEPT !.phase = "Done",
                              !.ret = IF ok THEN Ok(NoVal)
                                      ELSE Err("GitOperationFailed"),
                              !.elsewhere = IF ok THEN probe.message ELSE None]
    /\ UNCHANGED gitvars
    /\ CreateFrame

\* create_checkpoint(Some(message)): enter.
CreateEnter ==
    /\ probe.phase = "Decided"
    /\ ~probe.cwd
    /\ LET e == Enter(Git)
       IN  /\ SetGit(e.g)
           /\ probe' = IF e.res.ok
                       THEN [probe EXCEPT !.phase = "Inside", !.orig = e.name,
                                          !.backend = @ + 1]
                       ELSE [probe EXCEPT !.phase = "Done", !.ret = e.res,
                                          !.backend = @ + 1]
    /\ CreateFrame

\* create_checkpoint(Some(message)): the body; 'made' is the commit it stored.
CreateCommit ==
    /\ probe.phase = "Inside"
    /\ LET r == CreateBody(Git, probe.message.val)
       IN  /\ SetGit(r.g)
           /\ probe' = [probe EXCEPT !.phase = AfterBody(r.res), !.result = r.res,
                                     !.made = IF Len(r.g.commits) > Len(commits)
                                              THEN Len(r.g.commits) ELSE 0,
                                     !.backend = @ + 1]
    /\ CreateFrame

\* create_checkpoint(Some(message)): leave, and the return of execute.
CreateLeave(fail) ==
    /\ probe.phase = "Restoring"
    /\ LET l == restore_original_branch(Git, probe.orig, fail)
       IN  /\ SetGit(l.g)
           /\ probe' = [probe EXCEPT !.phase = "Done",
                                     !.ret = WrapperReturn(probe.result, l.res),
                                     !.backend = @ + 1]
    /\ CreateFrame

\* The steps of the command's own thread.
CommandStep ==
    \/ OpenContext
    \/ ExplicitMessage
    \/ SpawnReader
    \/ Tick
    \/ Receive
    \/ ReceiveNothing
    \/ \E ok \in BOOLEAN : CreateElsewhere(ok)
    \/ CreateEnter
    \/ CreateCommit
    \/ \E fail \in BOOLEAN : CreateLeave(fail)

CreateNext ==
    \/ \E t \in StdinTokens : StdinWrite(t)
    \/ StdinClose
    \/ ReaderSend
    \/ ReaderFail
    \/ CommandStep

CreateSpec == CreateInit /\ [][CreateNext]_vars

\* The command's thread is scheduled and its clock advances, whatever the
\* reader thread and the writer of standard input do.
CreateLive == CreateLiveInit /\ [][CreateNext]_vars /\ WF_vars(CommandStep)

\* ------------------------------------ DiffOperations (git_ops/diff.rs)
\* format_diff_output, driven by the line entries that diff.print hands to
\* its callback: file headers ('F'), hunk headers ('H'), context (' '),
\* deleted ('-') and added ('+') lines, and the end-of-file-newline markers
\* ('>' after a deleted last line, '<' after an added last line, '=' after a
\* context last line), each marker following the line it refers to.  The
\* content of a line is its text and whether a newline ends it.
MaxEntries == 12         \* entries of one diff
MaxFiles == 3            \* file deltas of one diff
EOFNL == "\\ No newline at end of file"
\* A line of a file whose text holds the words of the marker.
Quoting == "see: No newline at end of file"
Texts == {"x", "y"}
BareTexts == {"x"}       \* texts of last lines without a newline
ContextText == "c"

Content(t, nl) == [t |-> t, nl |-> nl]
\* A line entry: origin, content, file delta, and what the DiffLine and the
\* DiffHunk passed with it hold: old_lineno and new_lineno for a line (0
\* where the line has no such side), old_start and new_start for a hunk
\* header.
Line(o, c, f, old, new) == [o |-> o, c |-> c, f |-> f, old |-> old, new |-> new]
Entry(o, c, f) == Line(o, c, f, 0, 0)
Hunk(f, old_start, new_start) == Line("H", Content("", TRUE), f, old_start, new_start)
\* content.contains("No newline at end of file")
Contains(t) == t \in {EOFNL, Quoting}
\* str::trim on the content of a line
trim(c) == c.t

\* A line of the report: context, deletion or addition, and its text.
OutLine(k, c) == [k |-> k, t |-> trim(c)]

RECURSIVE OutLines(_, _)
OutLines(k, cs) ==
    IF cs = <<>> THEN <<>> ELSE <<OutLine(k, Head(cs))>> \o OutLines(k, Tail(cs))

Count(lines, k) == Cardinality({i \in 1..Len(lines) : lines[i].k = k})

NoResolution == [at |-> "none", file |-> 0, dels |-> <<>>, adds |-> <<>>,
                 arrived |-> <<>>, out |-> <<>>, ins |-> 0, del |-> 0]

\* The number columns of a line of the report (0: the column is blank) and
\* the numbers the line has in the old and in the new file.
Num(old, new, oldNo, newNo) == [old |-> old, new |-> new, oldNo |-> oldNo, newNo |-> newNo]

\* (content.to_string(), new_line_num) and (content.to_string(),
\* old_line_num): a buffered line with the counter's value when it was
\* buffered; no is the number the line has in its file.
Buffered(e, line) ==
    [t |-> e.c.t, nl |-> e.c.nl, line |-> line,
     no |-> IF e.o = "+" THEN e.new ELSE e.old]

\* What the callback keeps between lines, and the counts of the lines it
\* has put in the report (per file section).
Renderer(nfiles) ==
    [current_file |-> 0,
     file_stats |-> [f \in 1..nfiles |-> <<0, 0>>],
     old_line_num |-> 1, new_line_num |-> 1, hunk_initialized |-> FALSE,
     pending_deletions |-> <<>>, pending_additions |-> <<>>,
     in_newline_context |-> FALSE,
     result |-> 0,
     emitted |-> [f \in 0..nfiles |-> <<0, 0>>], contexts |-> 0,
     arrived |-> <<>>, resolution |-> NoResolution,
     misnumbered |-> FALSE, repeated |-> FALSE, shown_new |-> {}]

\* result.push_str for lines of the report.
Push(r, lines) ==
    [r EXCEPT !.result = @ + Len(lines),
              !.emitted[r.current_file] =
                  <<@[1] + Count(lines, "add"), @[2] + Count(lines, "del")>>,
              !.contexts = @ + Count(lines, "ctx")]

\* The number columns of lines put in the report: a column that differs from
\* the line's number is noted, and so is a new-side number that a line of
\* the same hunk showed before.
RECURSIVE Numbered(_, _)
Numbered(r, nums) ==
    IF nums = <<>> THEN r
    ELSE LET n == Head(nums)
         IN  Numbered([r EXCEPT
                 !.misnumbered = @ \/ n.old # n.oldNo \/ n.new # n.newNo,
                 !.repeated = @ \/ (n.new # 0 /\ n.new \in r.shown_new),
                 !.shown_new = IF n.new # 0 THEN @ \cup {n.new} ELSE @],
                      Tail(nums))

DelNums(dels) == [i \in 1..Len(dels) |-> Num(dels[i].line, 0, dels[i].no, 0)]
AddNums(adds) == [i \in 1..Len(adds) |-> Num(0, adds[i].line, 0, adds[i].no)]

\* if let Some(stats) = file_stats.get_mut(current_file) { .. += .. }
Counted(r, ins, del) ==
    IF r.current_file \in DOMAIN r.file_stats
    THEN [r EXCEPT !.file_stats[r.current_file] = <<@[1] + ins, @[2] + del>>]
    ELSE r

\* Variant: the literal rendering leaves the counters alone.
format_pending_changes_Uncounted(dels, adds) ==
    [out |-> OutLines("del", dels) \o OutLines("add", adds), ins |-> 0, del |-> 0,
     nums |-> DelNums(dels) \o AddNums(adds)]

\* format_pending_changes: the deletions, then the additions, each counted.
format_pending_changes(dels, adds) ==
    [out |-> OutLines("del", dels) \o OutLines("add", adds),
     ins |-> Len(adds), del |-> Len(dels),
     nums |-> DelNums(dels) \o AddNums(adds)]

\* Variant: no collapse at a hunk boundary.
handle_pending_newline_changes_Literal(dels, adds) ==
    format_pending_changes(dels, adds)

\* handle_pending_newline_changes: the buffer at a hunk header.
handle_pending_newline_changes(dels, adds) ==
    IF Len(dels) = 1 /\ Len(adds) = 2 /\ trim(dels[1]) = trim(adds[1])
    THEN [out |-> <<OutLine("ctx", dels[1]), OutLine("add", adds[2])>>,
          ins |-> 1, del |-> 0,
          nums |-> <<Num(dels[1].line, adds[1].line, dels[1].no, adds[1].no),
                     Num(0, adds[2].line, 0, adds[2].no)>>]
    ELSE format_pending_changes(dels, adds)

\* handle_remaining_newline_changes: the buffer after the last line.
handle_remaining_newline_changes(dels, adds) ==
    IF Len(dels) = 1 /\ Len(adds) = 2
    THEN IF trim(dels[1]) = trim(adds[1])
         THEN [out |-> <<OutLine("ctx", dels[1]), OutLine("add", adds[2])>>,
               ins |-> 1, del |-> 0,
               nums |-> <<Num(dels[1].line, adds[1].line, dels[1].no, adds[1].no),
                          Num(0, adds[2].line, 0, adds[2].no)>>]
         ELSE format_pending_changes(dels, adds)
    ELSE IF Len(dels) = 2 /\ Len(adds) = 1
    THEN IF trim(dels[1]) = trim(adds[1])
         THEN [out |-> <<OutLine("ctx", dels[1]), OutLine("del", dels[2])>>,
               ins |-> 0, del |-> 1,
               nums |-> <<Num(dels[1].line, adds[1].line, dels[1].no, adds[1].no),
                          Num(dels[2].line, 0, dels[2].no, 0)>>]
         ELSE format_pending_changes(dels, adds)
    ELSE format_pending_changes(dels, adds)

Total(stats, i) ==
    LET RECURSIVE Sum(_)
        Sum(n) == IF n = 0 THEN 0 ELSE stats[n][i] + Sum(n - 1)
    IN  Sum(Len(stats))

\* The buffer is rendered as h says; what was buffered, what was put in the
\* report for it and what the counters gained are noted.
Resolve(r, at, h) ==
    LET r1 == Numbered(Counted(Push(r, h.out), h.ins, h.del), h.nums)
    IN  [r1 EXCEPT !.resolution =
            [at |-> at, file |-> r.current_file,
             dels |-> r.pending_deletions, adds |-> r.pending_additions,
             arrived |-> r.arrived, out |-> h.out,
             ins |-> Total(r1.file_stats, 1) - Total(r.file_stats, 1),
             del |-> Total(r1.file_stats, 2) - Total(r.file_stats, 2)]]

HasPending(r) == r.pending_deletions # <<>> \/ r.pending_additions # <<>>

\* The marker test of the callback, lines 338-345.
IsMarker(e) == Contains(e.c.t) \/ e.o \in {">", "<"}

\* The callback passed to diff.print, lines 333-570.
line_cb(r, e) ==
    IF IsMarker(e) THEN [r EXCEPT !.in_newline_context = TRUE]
    ELSE IF r.in_newline_context /\ e.o \in {"+", "-"}
    THEN IF e.o = "+"
         THEN [r EXCEPT !.pending_additions = Append(@, Buffered(e, r.new_line_num)),
                        !.arrived = Append(@, [o |-> e.o, c |-> e.c, f |-> e.f])]
         ELSE [r EXCEPT !.pending_deletions = Append(@, Buffered(e, r.old_line_num)),
                        !.arrived = Append(@, [o |-> e.o, c |-> e.c, f |-> e.f])]
    ELSE CASE e.o = "F" ->
                [r EXCEPT !.current_file = e.f,
                          !.hunk_initialized = FALSE,
                          !.old_line_num = 0, !.new_line_num = 0,
                          !.result = @ + (IF r.current_file # 0 THEN 3 ELSE 2)]
           [] e.o = "H" ->
                LET r1 == IF r.in_newline_context /\ HasPending(r)
                          THEN [Resolve(r, "hunk",
                                        handle_pending_newline_changes(
                                            r.pending_deletions, r.pending_additions))
                                  EXCEPT !.pending_deletions = <<>>,
                                         !.pending_additions = <<>>,
                                         !.arrived = <<>>,
                                         !.in_newline_context = FALSE]
                          ELSE r
                IN  [r1 EXCEPT !.old_line_num = e.old, !.new_line_num = e.new,
                               !.hunk_initialized = TRUE,
                               !.shown_new = {},
                               !.result = @ + 1]
           [] e.o = "+" ->
                LET r1 == Push(Counted(r, 1, 0), <<OutLine("add", e.c)>>)
                IN  IF r.hunk_initialized
                    THEN [Numbered(r1, <<Num(0, r.new_line_num, e.old, e.new)>>)
                            EXCEPT !.new_line_num = @ + 1]
                    ELSE Numbered(r1, <<Num(0, 0, e.old, e.new)>>)
           [] e.o = "-" ->
                LET r1 == Push(Counted(r, 0, 1), <<OutLine("del", e.c)>>)
                IN  IF r.hunk_initialized
                    THEN [Numbered(r1, <<Num(r.old_line_num, 0, e.old, e.new)>>)
                            EXCEPT !.old_line_num = @ + 1]
                    ELSE Numbered(r1, <<Num(0, 0, e.old, e.new)>>)
           [] e.o = " " ->
                LET r1 == Push(r, <<OutLine("ctx", e.c)>>)
                IN  IF r.hunk_initialized
                    THEN [Numbered(r1, <<Num(r.old_line_num, r.new_line_num,
                                             e.old, e.new)>>)
                            EXCEPT !.old_line_num = @ + 1, !.new_line_num = @ + 1]
                    ELSE Numbered(r1, <<Num(0, 0, e.old, e.new)>>)
           [] OTHER -> r

\* generate_diff_summary: the totals over the per-file counters.
generate_diff_summary(file_stats) ==
    [present |-> TRUE, files |-> Len(file_stats),
     insertions |-> Total(file_stats, 1), deletions |-> Total(file_stats, 2)]

NoSummary == [present |-> FALSE, files |-> 0, insertions |-> 0, deletions |-> 0]

\* format_diff_output after diff.print returned, lines 573-594.
after_print(r) ==
    LET r1 == IF r.in_newline_context /\ HasPending(r)
              THEN Resolve(r, "end", handle_remaining_newline_changes(
                                         r.pending_deletions, r.pending_additions))
              ELSE r
    IN  [r |-> r1,
         summary |-> IF r1.result = 0 THEN NoSummary
                     ELSE generate_diff_summary(r1.file_stats)]

\* The diff of one file whose last line gains a newline and below which one
\* line is appended, as diff.print delivers it.
AppendAfterNewline ==
    <<Entry("F", Content("", TRUE), 1), Hunk(1, 1, 1),
      Line("-", Content("x", FALSE), 1, 1, 0), Entry(">", Content(EOFNL, TRUE), 1),
      Line("+", Content("x", TRUE), 1, 0, 1), Line("+", Content("y", TRUE), 1, 0, 2)>>

\* How far the entries delivered so far follow a given diff: the number of
\* entries when they are its beginning, -1 otherwise.
Follow(seen, n, e, diff) ==
    IF seen = n /\ n < Len(diff) /\ diff[n + 1] = e THEN n + 1 ELSE -1

\* The diff being printed: the number of its file deltas, the entries
\* delivered so far and where the next entry stands in the patch (after the
\* start, a file header, a hunk header, a line, a line without newline whose
\* marker is due, or the end of a file's lines), whether the hunk holds a
\* change yet, which lines the change under way has deleted, and the numbers
\* the next line has in the old and in the new file.
RenderStart(nfiles) ==
    [phase |-> "printing", nfiles |-> nfiles, n |-> 0, files |-> 0,
     pos |-> "start", last |-> "", oldEnded |-> FALSE, changed |-> FALSE,
     deleted |-> {}, old |-> 0, new |-> 0,
     seen |-> 0, r |-> Renderer(nfiles), summary |-> NoSummary]

RenderInit ==
    /\ repo = FALSE
    /\ head = Attached("")
    /\ refs = EmptyRefs
    /\ commits = <<>>
    /\ index = EmptyTree
    /\ workdir = EmptyTree
    /\ pc = "Outside"
    /\ cur = Idle
    /\ last = NoLast
    /\ edited = FALSE
    /\ probe = <<>>
    /\ \E nfiles \in 0..MaxFiles : render = RenderStart(nfiles)
    /\ procs = <<>>

RenderFrame == UNCHANGED <<gitvars, mainvars, probe, procs>>

\* diff.print delivers the entry e to the callback; the patch then stands
\* at pos, in file number files.
Deliver(e, pos, lastKind, files, oldEnded, changed) ==
    render' = [render EXCEPT !.n = @ + 1, !.pos = pos, !.last = lastKind,
                             !.files = files, !.oldEnded = oldEnded,
                             !.changed = changed,
                             !.deleted = IF e.o = "-" THEN @ \cup {e.c}
                                         ELSE IF e.o \in {"+", ">"} THEN @
                                         ELSE {},
                             !.old = IF e.o \in {"F", "H"} THEN e.old
                                     ELSE IF e.o \in {" ", "-"} THEN @ + 1 ELSE @,
                             !.new = IF e.o \in {"F", "H"} THEN e.new
                                     ELSE IF e.o \in {" ", "+"} THEN @ + 1 ELSE @,
                             !.seen = Follow(@, render.n, e, AppendAfterNewline),
                             !.r = line_cb(@, e)]

\* The lines of the current file delta may end here: it has no hunk, or its
\* last hunk holds a change.
FileComplete ==
    \/ render.pos \in {"start", "file"}
    \/ render.pos \in {"line", "eof"} /\ render.changed

\* The header of the next file delta.
EmitFile ==
    /\ render.phase = "printing"
    /\ render.n < MaxEntries
    /\ render.files < render.nfiles
    /\ FileComplete
    /\ Deliver(Entry("F", Content("", TRUE), render.files + 1), "file", "",
               render.files + 1, FALSE, FALSE)
    /\ RenderFrame

\* A hunk header: the first hunk of the file, which starts at the first
\* line of both files, or a further one while lines of both sides remain,
\* which starts one unchanged line below the hunk before.
EmitHunk ==
    /\ render.phase = "printing"
    /\ render.n < MaxEntries
    /\ \/ render.pos = "file"
       \/ render.pos = "line" /\ render.changed /\ ~render.oldEnded
    /\ Deliver(IF render.pos = "file" THEN Hunk(render.files, 1, 1)
               ELSE Hunk(render.files, render.old + 1, render.new + 1),
               "hunk", "", render.files, FALSE, FALSE)
    /\ RenderFrame

\* A line of a hunk.  Within a change the deleted lines precede the added
\* ones and no added line equals a deleted one; after the last line of the
\* old side only added lines follow; a line without a newline is the last of
\* its side and its marker is due; a hunk does not end in a context line
\* unless it holds a change; the line that quotes the marker is an added
\* line and the last line of the diff.
EmitLine(o, t, nl) ==
    /\ render.phase = "printing"
    /\ render.n < MaxEntries
    /\ render.pos \in {"hunk", "line"}
    /\ o = " " => ~render.oldEnded /\ t = ContextText
    /\ o = "-" => ~render.oldEnded /\ render.last # "+" /\ t \in Texts
    /\ o = "+" => t \in Texts \cup {Quoting} /\ Content(t, nl) \notin render.deleted
    /\ t = Quoting => o = "+" /\ nl /\ render.files = render.nfiles
    /\ ~nl => t \in BareTexts \cup {ContextText}
    /\ o = " " /\ ~nl => render.changed
    /\ Deliver(Line(o, Content(t, nl), render.files,
                    IF o \in {" ", "-"} THEN render.old ELSE 0,
                    IF o \in {" ", "+"} THEN render.new ELSE 0),
               IF t = Quoting THEN "eof" ELSE IF nl THEN "line" ELSE "bare",
               o, render.files, render.oldEnded,
               render.changed \/ o # " ")
    /\ RenderFrame

\* The marker that follows a line without a newline.
EmitMarker ==
    /\ render.phase = "printing"
    /\ render.n < MaxEntries
    /\ render.pos = "bare"
    /\ Deliver(Entry(CASE render.last = "-" -> ">"
                       [] render.last = "+" -> "<"
                       [] OTHER -> "=",
                     Content(EOFNL, TRUE), render.files),
               IF render.last = "-" THEN "line" ELSE "eof", render.last,
               render.files, render.last = "-", render.changed)
    /\ RenderFrame

\* diff.print returns: the remaining buffer is rendered and the summary added.
FinishDiff ==
    /\ render.phase = "printing"
    /\ render.files = render.nfiles
    /\ FileComplete
    /\ LET a == after_print(render.r)
       IN  render' = [render EXCEPT !.phase = "done", !.r = a.r,
                                    !.summary = a.summary]
    /\ RenderFrame

RenderNext ==
    \/ EmitFile
    \/ EmitHunk
    \/ \E o \in {" ", "-", "+"}, t \in Texts \cup {ContextText, Quoting},
          nl \in BOOLEAN :
           EmitLine(o, t, nl)
    \/ EmitMarker
    \/ FinishDiff

RenderSpec == RenderInit /\ [][RenderNext]_vars

\* ------------------------------- several invocations on one repository
\* Two ccg processes run create or list in the same repository.  Each has
\* its own GitOperations; HEAD, the refs, the object store, the index and
\* the working tree are the repository's.  Nothing in the code serialises
\* them, so their git operations interleave: enter, the operations of the
\* body (for create: ensure_ccg_branch, create_commit_internal and
\* restore_original_branch of GitOperations::create_checkpoint), leave.
Processes == {1, 2}

\* A process before it runs: overlap notes that another invocation was
\* between its enter and its leave when this one entered, before the branch
\* that was active when this one entered with no other one started, made the
\* commit it stored and landed the branch whose tip that commit became.
IdleProc(op) ==
    [pc |-> "Idle", op |-> op, orig |-> "", inner |-> "", result |-> Ok(NoVal),
     ret |-> Ok(NoVal), overlap |-> FALSE, first |-> FALSE, before |-> "",
     made |-> 0, landed |-> ""]

Running(q) == procs[q].pc \notin {"Idle", "Done"}

ConcInit ==
    /\ \E c \in BOOLEAN, wd \in {UserTree, EmptyTree} :
           LET s == [BornRepo(Attached("main"), c, UserTree, UserTree)
                       EXCEPT !.workdir = wd]
           IN  /\ repo = s.repo
               /\ head = s.head
               /\ refs = s.refs
               /\ commits = s.commits
               /\ index = s.index
               /\ workdir = s.workdir
    /\ pc = "Outside"
    /\ cur = Idle
    /\ last = NoLast
    /\ edited = FALSE
    /\ probe = <<>>
    /\ render = <<>>
    /\ procs \in [Processes -> {IdleProc(op) : op \in {"create", "list"}}]

ConcFrame == UNCHANGED <<mainvars, probe, render>>

\* execute_on_ccg_branch, lines 22-48: enter.
ProcEnter(p) ==
    /\ procs[p].pc = "Idle"
    /\ LET e == Enter(Git)
       IN  /\ WithinBound(e.g)
           /\ SetGit(e.g)
           /\ procs' = [procs EXCEPT
                  ![p] = [@ EXCEPT !.pc = IF e.res.ok THEN "Inside" ELSE "Done",
                                   !.orig = e.name,
                                   !.ret = e.res,
                                   !.overlap = \E q \in Processes \ {p} : Running(q),
                                   !.first = \A q \in Processes \ {p} :
                                                 procs[q].pc = "Idle",
                                   !.before = get_current_branch_name(Git)]]
    /\ ConcFrame

\* GitOperations::create_checkpoint, line 112: ensure_ccg_branch.
ProcCreateEnsure(p) ==
    /\ procs[p].pc = "Inside"
    /\ procs[p].op = "create"
    /\ LET e == ensure_ccg_branch(Git)
       IN  /\ SetGit(e.g)
           /\ procs' = [procs EXCEPT
                  ![p] = [@ EXCEPT !.pc = IF e.res.ok THEN "Committing" ELSE "Restoring",
                                   !.inner = e.name,
                                   !.result = e.res]]
    /\ ConcFrame

\* GitOperations::create_checkpoint, line 113: create_commit_internal.
ProcCreateCommit(p, m) ==
    /\ procs[p].pc = "Committing"
    /\ LET r == create_commit_internal(Git, m)
           new == IF Len(r.g.commits) > Len(commits) THEN Len(r.g.commits) ELSE 0
       IN  /\ WithinBound(r.g)
           /\ SetGit(r.g)
           /\ procs' = [procs EXCEPT
                  ![p] = [@ EXCEPT !.pc = "Committed",
                                   !.result = r.res,
                                   !.made = new,
                                   !.landed =
                                       IF new = 0 THEN ""
                                       ELSE IF \E b \in Branches : r.g.refs[b] = new
                                       THEN CHOOSE b \in Branches : r.g.refs[b] = new
                                       ELSE "none"]]
    /\ ConcFrame

\* GitOperations::create_checkpoint, lines 114-115: restore_original_branch,
\* and the closure of CheckpointService::create_checkpoint, which takes
\* NoChangesToCommit for success.
ProcCreateRestore(p) ==
    /\ procs[p].pc = "Committed"
    /\ LET r == restore_original_branch(Git, procs[p].inner, FALSE)
           res == IF ~r.res.ok THEN r.res
                  ELSE IF procs[p].result.ok THEN procs[p].result
                  ELSE IF procs[p].result.err = "NoChangesToCommit" THEN Ok(NoVal)
                  ELSE procs[p].result
       IN  /\ SetGit(r.g)
           /\ procs' = [procs EXCEPT ![p] = [@ EXCEPT !.pc = "Restoring",
                                                     !.result = res]]
    /\ ConcFrame

\* The closure of CheckpointService::list_checkpoints.
ProcList(p, limit) ==
    /\ procs[p].pc = "Inside"
    /\ procs[p].op = "list"
    /\ ListCommand_validate_args(limit).ok
    /\ procs' = [procs EXCEPT ![p] = [@ EXCEPT !.pc = "Restoring",
                                              !.result = Ok(ListLines(Git, limit))]]
    /\ UNCHANGED gitvars
    /\ ConcFrame

\* execute_on_ccg_branch, lines 53-65: leave.
ProcLeave(p) ==
    /\ procs[p].pc = "Restoring"
    /\ LET l == restore_original_branch(Git, procs[p].orig, FALSE)
       IN  /\ SetGit(l.g)
           /\ procs' = [procs EXCEPT
                  ![p] = [@ EXCEPT !.pc = "Done",
                                   !.ret = WrapperReturn(procs[p].result, l.res)]]
    /\ ConcFrame

ConcNext ==
    \E p \in Processes :
        \/ ProcEnter(p)
        \/ ProcCreateEnsure(p)
        \/ \E m \in Msgs : ProcCreateCommit(p, m)
        \/ ProcCreateRestore(p)
        \/ \E n \in Limits : ProcList(p, n)
        \/ ProcLeave(p)

ConcSpec == ConcInit /\ [][ConcNext]_vars

\* ------------------------------------------------ claims on CreateCommand
\* A text of white space only.
IsBlank(s) == \A i \in 1..Len(s) : s[i] = WS

\* The text is one tool-invocation payload, with white space around it at most.
IsPayload(s) ==
    \E i \in 1..Len(s) : /\ s[i] \in DocTexts
                         /\ JsonDoc(s[i]).hook
                         /\ \A j \in 1..Len(s) : j # i => s[j] = WS

PayloadOf(s) == JsonDoc(s[CHOOSE i \in 1..Len(s) : s[i] \in DocTexts])

\* The title the payload calls for: the tool name, followed by " on " and the
\* base name of the file-path hint when the payload carries a file name.
HintedTitle(doc) ==
    LET p == doc.file_path
    IN  IF p.kind = "str" /\ p.segs[Len(p.segs)] # ""
        THEN <<doc.tool_name, " on ", p.segs[Len(p.segs)]>>
        ELSE <<doc.tool_name>>

StartsWith2(s, t) == Len(s) >= Len(t) /\ SubSeq(s, 1, Len(t)) = t

\* C21: once create has chosen its commit message, the message is the
\* message argument when one was given, and then no reader was spawned and
\* nothing was received from standard input; otherwise, when the data
\* received from standard input is not blank and is a tool-invocation payload,
\* the message begins with the title "<tool name> on <file base name>" (the
\* tool name alone without a file name) and an empty line; when it is not
\* blank and is no payload, the message is the data, unchanged; and when
\* nothing was received or the data is blank, the message is "Manual
\* checkpoint".  The commit that create stores carries the chosen message.
C21_MessageChoice ==
    probe.message.some =>
        /\ probe.arg.some =>
               /\ probe.message.val = probe.arg.val
               /\ probe.reader = "unspawned"
               /\ ~probe.received.some
        /\ ~probe.arg.some =>
               LET d == probe.received
               IN  IF d.some /\ ~IsBlank(d.val)
                   THEN IF IsPayload(d.val)
                        THEN StartsWith2(probe.message.val,
                                         HintedTitle(PayloadOf(d.val)) \o <<"\n\n">>)
                        ELSE probe.message.val = d.val
                   ELSE probe.message.val = <<"Manual checkpoint">>
        /\ probe.made > 0 => commits[probe.made].msg = probe.message.val

\* A payload with white space before it was received, the title names the
\* base name of "src/f.rs", and the checkpoint was committed.
C21_Witness ==
    /\ probe.phase = "Done"
    /\ probe.made > 0
    /\ probe.received.some
    /\ Len(probe.received.val) = 3
    /\ probe.received.val[1] = WS
    /\ SubSeq(probe.message.val, 1, 3) = <<"Edit", " on ", "f.rs">>

Resolution == render.r.resolution

OneDeletionTwoAdditions ==
    /\ Resolution.at # "none"
    /\ Len(Resolution.dels) = 1
    /\ Len(Resolution.adds) = 2
    /\ trim(Resolution.dels[1]) = trim(Resolution.adds[1])

\* C22: a resolved buffer of exactly 1 deletion and 2 additions whose
\* deletion and first addition have the same trimmed text was rendered as
\* one context line (that text) followed by one addition (the second
\* addition), and the counters gained 1 insertion and 0 deletions, at a hunk
\* header and at the end of the diff alike.
C22_OneDeletionTwoAdditionsCollapse ==
    OneDeletionTwoAdditions =>
        /\ Resolution.out = <<[k |-> "ctx", t |-> trim(Resolution.dels[1])],
                              [k |-> "add", t |-> trim(Resolution.adds[2])]>>
        /\ Resolution.ins = 1
        /\ Resolution.del = 0

\* Such a buffer was resolved at a hunk header.
C22_Witness == OneDeletionTwoAdditions /\ Resolution.at = "hunk"

TwoDeletionsOneAddition ==
    /\ Resolution.at # "none"
    /\ Len(Resolution.dels) = 2
    /\ Len(Resolution.adds) = 1
    /\ trim(Resolution.dels[1]) = trim(Resolution.adds[1])

\* C23: a resolved buffer of exactly 2 deletions and 1 addition whose first
\* deletion and addition have the same trimmed text was rendered as one
\* context line (that text) followed by one deletion (the second deletion),
\* and the counters gained 1 deletion and 0 insertions, at a hunk header and
\* at the end of the diff alike.
C23_TwoDeletionsOneAdditionCollapse ==
    TwoDeletionsOneAddition =>
        /\ Resolution.out = <<[k |-> "ctx", t |-> trim(Resolution.dels[1])],
                              [k |-> "del", t |-> trim(Resolution.dels[2])]>>
        /\ Resolution.ins = 0
        /\ Resolution.del = 1

\* The buffered entries, in the order of their arrival, as lines of the
\* report.
LiteralInOrder(arrived) ==
    [i \in 1..Len(arrived) |->
        [k |-> IF arrived[i].o = "+" THEN "add" ELSE "del", t |-> trim(arrived[i].c)]]

\* C24: a resolved buffer that is neither of the two collapsible
\* combinations was rendered literally: its deletions and additions appear
\* once each, in the order in which they arrived, and the counters gained
\* one insertion per addition and one deletion per deletion.
C24_LiteralInArrivalOrder ==
    Resolution.at # "none" /\ ~OneDeletionTwoAdditions /\ ~TwoDeletionsOneAddition =>
        /\ Resolution.out = LiteralInOrder(Resolution.arrived)
        /\ Resolution.ins = Len(Resolution.adds)
        /\ Resolution.del = Len(Resolution.dels)

EmittedTotal(i) ==
    LET RECURSIVE Sum(_)
        Sum(f) == IF f < 0 THEN 0 ELSE render.r.emitted[f][i] + Sum(f - 1)
    IN  Sum(render.nfiles)

\* C25: when the diff is that of one file whose last line gains a newline
\* and below which one line is appended (removed last line, marker, added
\* last line, added new line), the report holds exactly one context line and
\* one addition, no deletion, and the summary counts 1 insertion and 0
\* deletions.
C25_AppendAfterNewlineIsContextPlusAddition ==
    render.phase = "done" /\ render.seen = Len(AppendAfterNewline) =>
        /\ render.r.contexts = 1
        /\ EmittedTotal(1) = 1
        /\ EmittedTotal(2) = 0
        /\ render.summary.insertions = 1
        /\ render.summary.deletions = 0

\* C26: at every point of the rendering the counters of each file equal the
\* numbers of addition and of deletion lines put in the report under that
\* file, and no such line stands before the first file header; the summary
\* is present whenever the report is not empty, its insertions and
\* deletions are the totals of the addition and deletion lines of the
\* report, and its files-changed figure is the number of file deltas.
C26_SummaryEqualsReport ==
    /\ \A f \in 1..render.nfiles : render.r.file_stats[f] = render.r.emitted[f]
    /\ render.r.emitted[0] = <<0, 0>>
    /\ render.phase = "done" =>
           /\ render.summary.present <=> render.r.result > 0
           /\ render.summary.present =>
                  /\ render.summary.insertions = EmittedTotal(1)
                  /\ render.summary.deletions = EmittedTotal(2)
                  /\ render.summary.files = render.files

\* A diff of several files was rendered in which lines were put in the
\* report directly and a buffer was collapsed at the end of the diff.
C26_Witness ==
    /\ render.phase = "done"
    /\ render.files >= 2
    /\ OneDeletionTwoAdditions
    /\ Resolution.at = "end"
    /\ EmittedTotal(1) >= 2
    /\ EmittedTotal(2) >= 1

\* -------------------------------------------- claims on list and on 'ccg'
\* The listing c.result of a list invocation c in the repository g: limit > 0
\* and min(limit, N) entries, N the number of commits reachable from the tip
\* of 'ccg', which are the tip and then, each time, the parent of the entry
\* before.
ListingOf(c, g) ==
    LET tip == g.refs[CCG_BRANCH_NAME]
        N == Cardinality(Reachable(g, tip))
        out == c.result.val
    IN  /\ c.limit > 0
        /\ c.result.ok
        /\ Len(out) = IF c.limit < N THEN c.limit ELSE N
        /\ \A i \in 1..Len(out) : out[i] = ListEntry(g, WalkFrom(g, tip)[i])

\* A list invocation returns InvalidArgument from the validation of its
\* arguments.
ListRejected ==
    /\ pc = "Outside"
    /\ pc' = "Outside"
    /\ ~edited'
    /\ last'.op = "list"
    /\ last'.ret = Err("InvalidArgument")

\* C27: whenever the body of list has run, its limit is greater than 0 and
\* its listing has exactly min(limit, N) entries, newest first and starting
\* with the tip of 'ccg'; a list that is rejected with InvalidArgument has
\* not entered the checkpoint branch, has called leave no time, and leaves
\* HEAD, the refs, the commits, the index and the working tree as they were.
C27_ListLimit ==
    [][/\ (pc' = "Restoring" /\ cur'.op = "list") => ListingOf(cur', Git')
       /\ ListRejected => /\ ~last'.entered
                          /\ last'.leaveCalls = 0
                          /\ UNCHANGED gitvars]_vars

\* list(1) has run on a 'ccg' of two commits.
C27_Witness ==
    /\ pc = "Restoring"
    /\ cur.op = "list"
    /\ cur.limit = 1
    /\ Len(cur.result.val) = 1
    /\ Cardinality(Reachable(Git, refs[CCG_BRANCH_NAME])) = 2

\* The step is one of the tool, not a file modification by the user.
ToolStep == pc # "Outside" \/ pc' # "Outside" \/ ~edited'

\* The operation whose invocation takes the step.
StepOp ==
    IF pc # "Outside" THEN cur.op
    ELSE IF pc' # "Outside" THEN cur'.op
    ELSE last'.op

\* C28: a step taken while 'ccg' exists leaves it existing; it changes the
\* tip of 'ccg' only when it is a step of create or of restore; when it is a
\* step of init, list, show or diff it leaves the tip of 'ccg', the index
\* and the working tree unchanged, and when it is a step of init it stores
\* no commit and changes no branch.  After a successful init 'ccg' exists.
C28_CcgPersistsAndMovesOnlyInCreateRestore ==
    [][LET tip == refs[CCG_BRANCH_NAME]
           tipAfter == refs'[CCG_BRANCH_NAME]
       IN  /\ (ToolStep /\ StepOp = "init" /\ last'.ret.ok) => tipAfter # 0
           /\ tip # 0 =>
                 /\ tipAfter # 0
                 /\ tipAfter # tip => ToolStep /\ StepOp \in {"create", "restore"}
                 /\ (ToolStep /\ StepOp \in {"init", "list", "show", "diff"}) =>
                        /\ tipAfter = tip
                        /\ index' = index
                        /\ workdir' = workdir
                 /\ (ToolStep /\ StepOp = "init") =>
                        /\ commits' = commits
                        /\ refs' = refs]_vars

\* An init has returned that found 'ccg' with two checkpoints on it.
C28_Witness ==
    /\ pc = "Outside"
    /\ ~edited
    /\ last.op = "init"
    /\ last.ret.ok
    /\ last.boot = "none"
    /\ last.kind = "history"
    /\ Cardinality(Reachable(Git, refs[CCG_BRANCH_NAME])) = 2

\* --------------------------------------- claims on concurrent invocations
\* C29: an invocation that entered while another one was between its enter
\* and its leave has not recorded 'ccg' as its original branch; every commit
\* an invocation stored became the tip of 'ccg'; and when all invocations
\* have returned, HEAD is attached to the branch that was active before the
\* first one started.
C29_HeadExclusivelyOwned ==
    /\ \A p \in Processes :
           procs[p].overlap /\ procs[p].pc # "Idle" => procs[p].orig # CCG_BRANCH_NAME
    /\ \A p \in Processes : procs[p].made # 0 => procs[p].landed = CCG_BRANCH_NAME
    /\ (\A p \in Processes : procs[p].pc = "Done") =>
           \A p \in Processes : procs[p].first => head = Attached(procs[p].before)

\* ------------------------------------------- claims on restore and on HEAD
\* C33: the body of restore resolves the hash before it looks at the working
\* tree: with a hash that does not resolve on 'ccg' the invocation returns
\* the resolver's error (CheckpointNotFound or InvalidHash), dirty working
\* tree or not, and it returns UncommittedChanges only for a hash that
\* resolves.
C33_ResolveBeforeDirtyCheck ==
    [][\A q \in Queries, fail \in BOOLEAN :
           BodyRestore(q, fail) =>
               LET f == find_commit(Git, q)
               IN  /\ ~f.res.ok =>
                          /\ last'.ret = f.res
                          /\ f.res.err \in {"CheckpointNotFound", "InvalidHash"}
                   /\ last'.ret = Err("UncommittedChanges") => f.res.ok]_vars

\* C35: when list, show or diff has entered in a repository and its leave
\* succeeded, HEAD is what it was when the invocation started: attached to
\* the same branch or detached at the same commit, and born exactly when it
\* was born.
C35_EnterLeaveRoundTrip ==
    [][\A fail \in BOOLEAN :
           (/\ Leave(fail)
            /\ cur.op \in {"list", "show", "diff"}
            /\ cur.start.repo
            /\ last'.leaveOk) =>
               /\ head' = cur.start.head
               /\ (HeadTarget(Git') # 0) = cur.start.born]_vars

\* C40: a step of list, restore, show or diff taken where there is no
\* repository changes nothing; a step that makes the directory a repository
\* is one of init or create, it leaves HEAD attached to 'ccg', no branch
\* other than 'ccg' exists after it and the commit it stored is the tip of
\* 'ccg'; and no other branch comes into existence while the invocation that
\* initialised the repository runs.
C40_OnlyInitAndCreateInitialise ==
    [][/\ (~repo /\ ToolStep /\ StepOp \in {"list", "restore", "show", "diff"}) =>
              UNCHANGED gitvars
       /\ (~repo /\ repo') =>
              /\ StepOp \in {"init", "create"}
              /\ head' = Attached(CCG_BRANCH_NAME)
              /\ \A b \in Branches \ {CCG_BRANCH_NAME} : refs'[b] = 0
              /\ Len(commits') = 1
              /\ refs'[CCG_BRANCH_NAME] = 1
       /\ (pc # "Outside" /\ ~cur.start.repo) =>
              /\ head' = Attached(CCG_BRANCH_NAME)
              /\ \A b \in Branches \ {CCG_BRANCH_NAME} : refs'[b] = 0]_vars

\* A create that started where there was no repository has returned and its
\* bootstrap commit, which holds the files found, is the tip of 'ccg'.
C40_Witness ==
    /\ pc = "Outside"
    /\ last.op = "create"
    /\ last.kind = "norepo"
    /\ last.ret.ok
    /\ head = Attached(CCG_BRANCH_NAME)
    /\ refs[CCG_BRANCH_NAME] = 1
    /\ commits[1].tree # EmptyTree

\* ------------------------------- restore in a repository with user history
\* The repositories in which the user committed on 'main' after 'ccg' was
\* created from the first commit: 'main' is one commit ahead of 'ccg', the
\* second commit deletes the tracked file or adds one, HEAD is attached to
\* 'main' or to 'ccg', and index and working tree are those of a clean
\* checkout of HEAD.
UserSecondMsg == "second user commit"

DivergedRepo(b, t2) ==
    [repo |-> TRUE, head |-> Attached(b),
     refs |-> [r \in Branches |-> IF r = "main" THEN 2
                                  ELSE IF r = CCG_BRANCH_NAME THEN 1 ELSE 0],
     commits |-> <<[parent |-> 0, tree |-> UserTree, msg |-> UserMsg],
                   [parent |-> 1, tree |-> t2, msg |-> UserSecondMsg]>>,
     index |-> IF b = "main" THEN t2 ELSE UserTree,
     workdir |-> IF b = "main" THEN t2 ELSE UserTree]

DivergedRepos ==
    {DivergedRepo(b, t2) : b \in {"main", CCG_BRANCH_NAME},
                           t2 \in {EmptyTree, UserTreeIg}}

DivergedInit ==
    /\ \E s \in DivergedRepos : /\ repo = s.repo
                                /\ head = s.head
                                /\ refs = s.refs
                                /\ commits = s.commits
                                /\ index = s.index
                                /\ workdir = s.workdir
    /\ pc = "Outside"
    /\ cur = Idle
    /\ last = NoLast
    /\ edited = FALSE
    /\ probe = <<>>
    /\ render = <<>>
    /\ procs = <<>>

\* The user edits files and runs restore.
DivergedNext ==
    \/ \E p \in Paths, c \in Contents : UserEdit(p, c)
    \/ RestoreDeclined
    \/ InvokeRestore
    \/ \E q \in Queries, fail \in BOOLEAN : BodyRestore(q, fail)

DivergedSpec == DivergedInit /\ [][DivergedNext]_vars

\* C36: when restore was started from a branch other than 'ccg' with index
\* and working tree clean with respect to that branch, and its hash resolves,
\* it is not rejected with UncommittedChanges, whatever the tree at the tip
\* of 'ccg'.
C36_CleanOnOwnBranchPassesCheck ==
    [][\A q \in Queries, fail \in BOOLEAN :
           (/\ BodyRestore(q, fail)
            /\ cur.orig # CCG_BRANCH_NAME
            /\ cur.start.head = Attached(cur.orig)
            /\ cur.start.born
            /\ ~has_uncommitted_changes([Git EXCEPT !.head = cur.start.head])
            /\ find_commit(Git, q).res.ok) =>
               last'.ret # Err("UncommittedChanges")]_vars

\* C37: after a successful restore the tip of 'ccg' is a commit that was
\* reachable from the tip of 'ccg' before the restore.
C37_TipMovesBackOnOwnHistory ==
    [][\A q \in Queries, fail \in BOOLEAN :
           (BodyRestore(q, fail) /\ last'.ret.ok) =>
               refs'[CCG_BRANCH_NAME] \in Reachable(Git, refs[CCG_BRANCH_NAME])]_vars

\* --------------------------------- GitOperations::create_checkpoint, called
\* The public method called on a repository whose HEAD is attached to 'main'
\* or to 'ccg', 'ccg' existing, between file modifications.
ApiRepos ==
    {BornRepo(Attached(b), TRUE, t, t) : b \in {"main", CCG_BRANCH_NAME},
                                         t \in {UserTree, UserTreeIg}}

ApiInit ==
    /\ \E s \in ApiRepos : /\ repo = s.repo
                           /\ head = s.head
                           /\ refs = s.refs
                           /\ commits = s.commits
                           /\ index = s.index
                           /\ workdir = s.workdir
    /\ pc = "Outside"
    /\ cur = Idle
    /\ last = NoLast
    /\ edited = FALSE
    /\ probe = <<>>
    /\ render = <<>>
    /\ procs = <<>>

\* git_ops.create_checkpoint(message); fail: set_head cannot write HEAD when
\* the method switches back.
CallCreateCheckpoint(message, fail) ==
    /\ pc = "Outside"
    /\ UNCHANGED sidevars
    /\ LET r == GitOperations_create_checkpoint(Git, message, fail)
       IN  /\ WithinBound(r.g)
           /\ SetGit(r.g)
           /\ Return([Outcome("create_checkpoint", r.res, r.g)
                        EXCEPT !.orig = get_current_branch_name(Git)])

ApiNext ==
    \/ \E p \in Paths, c \in Contents : UserEdit(p, c)
    \/ \E m \in Msgs, fail \in BOOLEAN : CallCreateCheckpoint(m, fail)

ApiSpec == ApiInit /\ [][ApiNext]_vars

\* C34: a call of create_checkpoint made with HEAD attached to an existing
\* branch other than 'ccg' that stored a commit returns the hash of that
\* commit, whether the switch back to the branch succeeded or not.
C34_CheckpointNotMaskedBySwitchBack ==
    [][\A m \in Msgs, fail \in BOOLEAN :
           (/\ CallCreateCheckpoint(m, fail)
            /\ head.attached
            /\ head.branch # CCG_BRANCH_NAME
            /\ refs[head.branch] # 0
            /\ Len(commits') = Len(commits) + 1) =>
               last'.ret = Ok(HashOf(Len(commits')))]_vars

\* ------------------------------------------ claims on buffering and files
\* C31: when the callback has processed a hunk header, no line is buffered
\* and buffering is off; and lines are buffered only in a hunk in which a
\* marker was delivered.
C31_NoBufferingAcrossHunks ==
    /\ (render.phase = "printing" /\ render.pos = "hunk") =>
           /\ ~render.r.in_newline_context
           /\ ~HasPending(render.r)
    /\ (render.phase = "printing" /\ HasPending(render.r)) => render.oldEnded

\* C38: the lines of a buffer that was rendered are lines of the file under
\* whose header they were put in the report and in whose counters they were
\* counted.
C38_BufferedLinesStayWithTheirFile ==
    Resolution.at # "none" =>
        \A i \in 1..Len(Resolution.arrived) :
            Resolution.arrived[i].f = Resolution.file

\* C39: when an added or removed line of a file is delivered (an entry whose
\* origin is '+' or '-'), the callback leaves buffering as it was, and the
\* line is then the last line of the buffer or one more addition or deletion
\* of the report under the current file; this also when the text of the line
\* holds the words of the marker.
C39_OnlyMarkersSuppressed ==
    [][\A o \in {"+", "-"}, t \in Texts \cup {Quoting}, nl \in BOOLEAN :
           EmitLine(o, t, nl) =>
               LET r == render.r
                   r2 == render'.r
                   k == IF o = "+" THEN 1 ELSE 2
                   before == IF o = "+" THEN r.pending_additions
                             ELSE r.pending_deletions
                   after == IF o = "+" THEN r2.pending_additions
                            ELSE r2.pending_deletions
               IN  /\ r2.in_newline_context = r.in_newline_context
                   /\ \/ /\ Len(after) = Len(before) + 1
                         /\ after[Len(after)].t = t
                      \/ r2.emitted[r.current_file][k] =
                             r.emitted[r.current_file][k] + 1]_vars

\* C32: every line put in the report shows, in its old and new number
\* columns, the numbers the line has in the old and in the new file (the
\* hunk's start plus the lines of that side before it), whether it was
\* rendered when delivered or from the buffer, and no two new-side lines of
\* one hunk show the same new number.
C32_LineNumbers ==
    /\ ~render.r.misnumbered
    /\ ~render.r.repeated
====
